---------------------------- MODULE Spec2Model ----------------------------
(***************************************************************************)
(* A model of the numerical core of GANDALF (SPH + N-body):                *)
(*   - the pair-force routines of GradhSph (src/src/GradhSph.cpp),         *)
(*   - the smoothing-length solvers GradhSph::ComputeH and                 *)
(*     SM2012Sph::ComputeH (src/unnamed/part_001),                         *)
(*   - the periodic/mirror/MPI ghost manager and the periodic wrap, serial *)
(*     and on a team of threads (src/src/Ghosts.cpp),                      *)
(*   - the league calendar, the load balancing and the ghost exchange of   *)
(*     MpiControl (src/src/MpiControl.cpp),                                *)
(*   - the N-body leapfrog (src/src/NbodyLeapfrogDKD.cpp).                 *)
(* Each subsystem has its own specification (SpecForce, SpecH, SpecRepeat, *)
(* SpecGhost, SpecWrap, SpecWrapOmp, SpecLeague, SpecBalance and its fair  *)
(* variant SpecBalanceFair, SpecLevels, SpecExchange, SpecNbody); the      *)
(* variables of the other subsystems stay at their idle values.            *)
(*                                                                         *)
(* Arithmetic.  FLOAT quantities of the force and ghost routines are       *)
(* modelled by integers (exact sums and products; a factor 0.5 or 0.25 is  *)
(* a truncating division).  The h iteration needs a wide dynamic range     *)
(* (120 halvings), so ComputeH uses a small binary floating point with     *)
(* FPrec mantissa bits.  The force routines and ComputeH are the ndim = 1   *)
(* instantiation, the ghost manager the ndim = 3 one.  Load balancing     *)
(* (ndim = 1) uses the same floating point; the N-body model integers.     *)
(* Operators whose operands are deep expressions bind them once, in a      *)
(* one-element set, before using them.                                     *)
(***************************************************************************)
EXTENDS Integers, Sequences, FiniteSets, TLC

VARIABLES
    sph,        \* force model: SphParticle array (static fields and sums)
    agravbuf,   \* force model: agrav[] array handed to ComputeDirectGravForces
    gpotbuf,    \* force model: gpot[] array handed to ComputeDirectGravForces
    fcall,      \* force model: the call in progress (function, i, list, jj)
    called,     \* force model: particles whose direct-sum call has been made
    visits,     \* force model: how often each pair was evaluated by the direct sum
    ncalls,     \* force model: number of neighbour-list force calls made
    params,     \* force model: avisc, acond of the Sph object; routine exercised
    parti,      \* ComputeH: the particle whose smoothing length is solved
    neib,       \* ComputeH: arguments (neighbour masses, distances, hmax)
    hpar,       \* ComputeH: h_fac, h_converge, hmin_sink of the Sph object, its class
    hst,        \* ComputeH: locals (iteration, bounds), position and result
    gsph,       \* ghosts: the Sph object (sphdata, counters) and how the call ended
    simbox,     \* ghosts: the DomainBox (boundaries, box) and ghost_range
    mpi,        \* ghosts: particles exported by the other node and received here
    gst,        \* ghosts: last call, its tghost, the array as the search left it;
                \* threaded wrap: the team, the shared partint, iterations left
    procs,      \* MPI: the local state of every rank (position, MpiControl fields)
    net,        \* MPI: messages in flight and the state of the collectives
    world,      \* MPI: MPI_COMM_WORLD (Nmpi) and what the ranks were started with
    nbody       \* N-body: the star array and the integer times of the integrator

fvars == <<sph, agravbuf, gpotbuf, fcall, called, visits, ncalls, params>>

hvars == <<parti, neib, hpar, hst>>

gvars == <<gsph, simbox, mpi, gst>>

lvars == <<procs, net, world>>

nvars == <<nbody>>

vars == <<sph, agravbuf, gpotbuf, fcall, called, visits, ncalls, params,
          parti, neib, hpar, hst, gsph, simbox, mpi, gst,
          procs, net, world, nbody>>

\* What the steps of one subsystem leave alone: the other subsystems
restF == <<hvars, gvars, lvars, nvars>>

restH == <<fvars, gvars, lvars, nvars>>

restG == <<fvars, hvars, lvars, nvars>>

restL == <<fvars, hvars, gvars, nvars>>

restN == <<fvars, hvars, gvars, lvars>>

(***************************************************************************)
(* Generic helpers                                                         *)
(***************************************************************************)
Abs(x) == IF x < 0 THEN -x ELSE x

Sign(x) == IF x < 0 THEN -1 ELSE IF x > 0 THEN 1 ELSE 0

Max2(x, y) == IF x >= y THEN x ELSE y

Min2(x, y) == IF x <= y THEN x ELSE y

RECURSIVE SetToAscSeq(_)
SetToAscSeq(S) ==
    IF S = {} THEN <<>>
    ELSE LET lo == CHOOSE x \in S : \A y \in S : x <= y
         IN  <<lo>> \o SetToAscSeq(S \ {lo})

(***************************************************************************)
(* ----------------------------------------------------------------------- *)
(* PART 1.  Pair forces (GradhSph.cpp, lines 244-654), ndim = 1            *)
(* ----------------------------------------------------------------------- *)
(***************************************************************************)
Npart == 3              \* number of SPH particles in the force model
MaxCalls == 1           \* neighbour-list force calls per behaviour

Part == 0 .. (Npart - 1)

\* Sph constructor arguments alpha_visc_aux, beta_visc_aux (values of a run)
alpha_visc == 2
beta_visc == 3
\* gamma - 1 of the equation of state
gammam1 == 1
\* kernel extent of the M4 kernel
kernrange == 2
\* scale of the tabulated gravity kernels (value 1 is GravScale)
GravScale == 12

\* integer square root (floor), for sqrt() of the conductivity signal speed
RECURSIVE ISqrtFrom(_, _)
ISqrtFrom(x, k) == IF (k + 1) * (k + 1) > x THEN k ELSE ISqrtFrom(x, k + 1)

ISqrt(x) == ISqrtFrom(x, 0)

\* kern.w1(s): kernel gradient, zero for s >= kernrange
W1(s) == IF s >= kernrange THEN 0 ELSE IF s = 0 THEN 0 ELSE -3

\* kern.wgrav(s): softened gravity inside the kernel, 1/s^2 outside
Wgrav(s) == IF s >= kernrange THEN GravScale \div (s * s) ELSE 9 * s

\* kern.wpot(s): softened potential inside the kernel, 1/s outside
Wpot(s) == IF s >= kernrange THEN GravScale \div s ELSE 17 - 3 * s

\* eos->Pressure(part) of the isothermal equation of state
Pressure(p) == gammam1 * p.rho * p.u

\* The particle data the force routines read, for particle i of a run
InitParticle(i, mprof, vprof, act) ==
    [ m |-> IF mprof = 0 THEN 1 ELSE i + 1,
      r |-> i,
      v |-> IF vprof = 0 THEN 0 ELSE IF vprof = 1 THEN -i ELSE i,
      invh |-> 1 + (i % 2),
      hfactor |-> (1 + (i % 2)) * (1 + (i % 2)),
      pfactor |-> 1 + i,
      rho |-> 2 - (i % 2),
      invrho |-> 1 + (i % 2),
      sound |-> 1 + i,
      u |-> 2 * i + 1,
      alpha |-> i % 3,
      zeta |-> i,
      chi |-> 1,
      level |-> i % 2,
      active |-> act,
      a |-> 0, agrav |-> 0, gpot |-> 0, dudt |-> 0, div_v |-> 0,
      levelneib |-> 0 ]

(* Artificial viscosity of ComputeSphHydroForces for an approaching pair:  *)
(* the decrement of paux and the value uaux taken from both du/dt.         *)
ViscHydroForces(pi, pj, dvdr, winvrho) ==
    IF params.avisc = "mon97" THEN
        LET vsignal == pi.sound + pj.sound - beta_visc * alpha_visc * dvdr
        IN  [ dpaux |-> alpha_visc * vsignal * dvdr * winvrho,
              uaux  |-> (alpha_visc * vsignal * dvdr * dvdr * winvrho) \div 2 ]
    ELSE IF params.avisc = "mon97td" THEN
        LET alpha_mean == (pi.alpha + pj.alpha) \div 2
            vsignal == pi.sound + pj.sound - beta_visc * alpha_mean * dvdr
        IN  [ dpaux |-> alpha_mean * vsignal * dvdr * winvrho,
              uaux  |-> (alpha_mean * vsignal * dvdr * dvdr * winvrho) \div 2 ]
    ELSE [ dpaux |-> 0, uaux |-> 0 ]

(* Artificial viscosity of ComputeSphHydroGravForces (mon97 only).         *)
ViscHydroGravForces(pi, pj, dvdr, winvrho) ==
    IF params.avisc = "mon97" THEN
        LET vsignal == pi.sound + pj.sound - beta_visc * dvdr
        IN  [ dpaux |-> alpha_visc * vsignal * dvdr * winvrho,
              uaux  |-> (alpha_visc * vsignal * dvdr * dvdr * winvrho) \div 2 ]
    ELSE [ dpaux |-> 0, uaux |-> 0 ]

(* Artificial conductivity (both routines): increments of du/dt of i and j *)
Conductivity(pi, pj, dvdr, wkerni, wkernj, winvrho) ==
    IF params.acond = "wadsley2008" THEN
        LET uaux == (dvdr * (pj.u - pi.u) *
                     (pi.invrho * wkerni + pj.invrho * wkernj)) \div 2
        IN  [ di |-> pj.m * uaux, dj |-> -(pi.m * uaux) ]
    ELSE IF params.acond = "price2008" THEN
        LET vsignal == ISqrt((Abs(Pressure(pi) - Pressure(pj)) *
                              (pi.invrho + pj.invrho)) \div 2)
        IN  [ di |-> (pj.m * vsignal * (pi.u - pj.u) * winvrho) \div 2,
              dj |-> -((pi.m * vsignal * (pi.u - pj.u) * winvrho) \div 2) ]
    ELSE [ di |-> 0, dj |-> 0 ]

\* 1/sqrt(drsqd + small_number) of the direct sum, in units of 1/6
InvDrMag(drsqd) == IF drsqd = 0 THEN 6 * 1000 ELSE 6 \div ISqrt(drsqd)

\* The body of the neighbour loop of ComputeSphHydroForces for i and j
HydroForcesPair(S, i, j) ==
    LET pi == S[i]
        pj == S[j]
        drmag == Abs(pj.r - pi.r)
        draux == Sign(pj.r - pi.r)
        wkerni == pi.hfactor * W1(drmag * pi.invh)
        wkernj == pj.hfactor * W1(drmag * pj.invh)
        dvdr == (pj.v - pi.v) * draux
        winvrho == ((wkerni + wkernj) * (pi.invrho + pj.invrho)) \div 4
        visc == IF dvdr < 0 THEN ViscHydroForces(pi, pj, dvdr, winvrho)
                ELSE [ dpaux |-> 0, uaux |-> 0 ]
        cond == IF dvdr < 0
                THEN Conductivity(pi, pj, dvdr, wkerni, wkernj, winvrho)
                ELSE [ di |-> 0, dj |-> 0 ]
        paux == pi.pfactor * wkerni + pj.pfactor * wkernj - visc.dpaux
    IN  [ S EXCEPT
            ![i] = [ pi EXCEPT
                      !.div_v = @ - pj.m * dvdr * wkerni,
                      !.dudt = @ - pj.m * visc.uaux + cond.di,
                      !.a = @ + pj.m * draux * paux,
                      !.levelneib = Max2(@, pj.level) ],
            ![j] = [ pj EXCEPT
                      !.div_v = @ - pi.m * dvdr * wkernj,
                      !.dudt = @ - pi.m * visc.uaux + cond.dj,
                      !.a = @ - pi.m * draux * paux,
                      !.levelneib = Max2(@, pi.level) ] ]

\* paux of the "Main SPH gravity terms" of the two gravity routines
GravPaux(pi, pj, drmag) ==
    (pi.invh * pi.invh * Wgrav(drmag * pi.invh) +
     (pi.zeta + pi.chi) * pi.hfactor * W1(drmag * pi.invh) +
     pj.invh * pj.invh * Wgrav(drmag * pj.invh) +
     (pj.zeta + pj.chi) * pj.hfactor * W1(drmag * pj.invh)) \div 2

\* gaux of the two gravity routines
GravGaux(pi, pj, drmag) ==
    (pi.invh * Wpot(drmag * pi.invh) + pj.invh * Wpot(drmag * pj.invh)) \div 2

\* The body of the neighbour loop of ComputeSphHydroGravForces for i and j
HydroGravForcesPair(S, i, j) ==
    LET pi == S[i]
        pj == S[j]
        drmag == Abs(pj.r - pi.r)
        dr == Sign(pj.r - pi.r)
        dvdr == (pj.v - pi.v) * dr
        wkerni == pi.hfactor * W1(drmag * pi.invh)
        wkernj == pj.hfactor * W1(drmag * pj.invh)
        winvrho == ((wkerni + wkernj) * (pi.invrho + pj.invrho)) \div 4
        visc == IF dvdr < 0 THEN ViscHydroGravForces(pi, pj, dvdr, winvrho)
                ELSE [ dpaux |-> 0, uaux |-> 0 ]
        cond == IF dvdr < 0
                THEN Conductivity(pi, pj, dvdr, wkerni, wkernj, winvrho)
                ELSE [ di |-> 0, dj |-> 0 ]
        paux == pi.pfactor * wkerni + pj.pfactor * wkernj - visc.dpaux
        pgrav == GravPaux(pi, pj, drmag)
        gaux == GravGaux(pi, pj, drmag)
    IN  [ S EXCEPT
            ![i] = [ pi EXCEPT
                      !.dudt = @ - pj.m * visc.uaux + cond.di,
                      !.a = @ + pj.m * dr * paux,
                      !.agrav = @ + pj.m * dr * pgrav,
                      !.gpot = @ + pj.m * gaux,
                      !.div_v = @ - pj.m * dvdr * wkerni,
                      !.levelneib = Max2(@, pj.level) ],
            ![j] = [ pj EXCEPT
                      !.dudt = @ - pi.m * visc.uaux + cond.dj,
                      !.a = @ - pi.m * dr * paux,
                      !.agrav = @ - pi.m * dr * pgrav,
                      !.gpot = @ + pi.m * gaux,
                      !.div_v = @ - pi.m * dvdr * wkernj,
                      !.levelneib = Max2(@, pi.level) ] ]

\* Mutant of GravForcesPair: the neighbour's reaction is weighted with the
\* neighbour's own mass instead of parti.m
GravForcesPair_WrongMass(S, i, j) ==
    LET pi == S[i]
        pj == S[j]
        drmag == Abs(pj.r - pi.r)
        dr == Sign(pj.r - pi.r)
        pgrav == GravPaux(pi, pj, drmag)
        gaux == GravGaux(pi, pj, drmag)
    IN  [ S EXCEPT
            ![i] = [ pi EXCEPT !.agrav = @ + pj.m * dr * pgrav,
                               !.gpot = @ + pj.m * gaux ],
            ![j] = [ pj EXCEPT !.agrav = @ - pj.m * dr * pgrav,
                               !.gpot = @ + pi.m * gaux ] ]

\* The body of the neighbour loop of ComputeSphGravForces for i and j
GravForcesPair(S, i, j) ==
    LET pi == S[i]
        pj == S[j]
        drmag == Abs(pj.r - pi.r)
        dr == Sign(pj.r - pi.r)
        pgrav == GravPaux(pi, pj, drmag)
        gaux == GravGaux(pi, pj, drmag)
    IN  [ S EXCEPT
            ![i] = [ pi EXCEPT !.agrav = @ + pj.m * dr * pgrav,
                               !.gpot = @ + pj.m * gaux ],
            ![j] = [ pj EXCEPT !.agrav = @ - pi.m * dr * pgrav,
                               !.gpot = @ + pi.m * gaux ] ]

\* Mutant of DirectGravSkip: the skip forgets the neighbour's active flag
DirectGravSkip_NoActiveTest(S, i, j) == j <= i

\* "Skip active particles with smaller neighbour ids" of the direct sum
DirectGravSkip(S, i, j) == j <= i /\ S[j].active

\* The loop body of ComputeDirectGravForces for i and j (pair not skipped):
\* the new parti, agrav[] and gpot[]
DirectGravPair(S, ag, gp, i, j) ==
    LET pi == S[i]
        dr == S[j].r - pi.r
        invdrmag == InvDrMag(dr * dr)
        invdr3 == invdrmag * invdrmag * invdrmag
    IN  [ parti |-> [ pi EXCEPT !.agrav = @ + S[j].m * dr * invdr3,
                                !.gpot = @ + S[j].m * invdrmag ],
          agrav |-> [ ag EXCEPT ![j] = @ - pi.m * dr * invdr3 ],
          gpot  |-> [ gp EXCEPT ![j] = @ + pi.m * invdrmag ] ]

\* The unordered pairs of particles
Pairs == { pr \in SUBSET Part : Cardinality(pr) = 2 }

NoCall == [ fn |-> "none", i |-> 0, list |-> <<>>, jj |-> 1 ]

ForceInit ==
    /\ \E mprof \in 0 .. 1, vprof \in 0 .. 2, act \in [Part -> BOOLEAN] :
          sph = [ i \in Part |-> InitParticle(i, mprof, vprof, act[i]) ]
    /\ \E sw \in { <<"mon97", "none">>, <<"mon97td", "wadsley2008">>,
                    <<"none", "price2008">> },
          fn \in {"direct", "hydro", "hydrograv", "grav"} :
          params = [ avisc |-> sw[1], acond |-> sw[2], routine |-> fn ]
    /\ agravbuf = [ i \in Part |-> 0 ]
    /\ gpotbuf = [ i \in Part |-> 0 ]
    /\ fcall = NoCall
    /\ called = {}
    /\ visits = [ pr \in Pairs |-> <<>> ]
    /\ ncalls = 0

\* The caller starts the direct sum of active particle i over all others
CallDirectGravForces(i) ==
    /\ fcall.fn = "none"
    /\ params.routine = "direct"
    /\ sph[i].active
    /\ i \notin called
    /\ fcall' = [ fn |-> "direct", i |-> i,
                  list |-> SetToAscSeq(Part \ {i}), jj |-> 1 ]
    /\ called' = called \cup {i}
    /\ UNCHANGED <<sph, agravbuf, gpotbuf, visits, ncalls, params, restF>>

\* The neighbour lists a caller hands over for particle i: all other
\* particles, or those inside the kernel of i
NeibLists(i) ==
    { Part \ {i},
      { j \in Part \ {i} :
          Abs(sph[j].r - sph[i].r) * sph[i].invh < kernrange } } \ {{}}

\* The caller starts the neighbour-list routine of the run for particle i
CallNeibForces(i, nlist) ==
    /\ fcall.fn = "none"
    /\ params.routine # "direct"
    /\ ncalls < MaxCalls
    /\ fcall' = [ fn |-> params.routine, i |-> i,
                  list |-> SetToAscSeq(nlist), jj |-> 1 ]
    /\ ncalls' = ncalls + 1
    /\ UNCHANGED <<sph, agravbuf, gpotbuf, called, visits, params, restF>>

InLoop(fn) == fcall.fn = fn /\ fcall.jj <= Len(fcall.list)

ComputeDirectGravForces ==
    /\ InLoop("direct")
    /\ LET i == fcall.i
           j == fcall.list[fcall.jj]
       IN  IF DirectGravSkip(sph, i, j)
           THEN UNCHANGED <<sph, agravbuf, gpotbuf, visits>>
           ELSE LET res == DirectGravPair(sph, agravbuf, gpotbuf, i, j)
                IN  /\ sph' = [ sph EXCEPT ![i] = res.parti ]
                    /\ agravbuf' = res.agrav
                    /\ gpotbuf' = res.gpot
                    /\ visits' = [ visits EXCEPT ![{i, j}] = Append(@, i) ]
    /\ fcall' = [ fcall EXCEPT !.jj = @ + 1 ]
    /\ UNCHANGED <<called, ncalls, params, restF>>

ComputeSphHydroForces ==
    /\ InLoop("hydro")
    /\ sph' = HydroForcesPair(sph, fcall.i, fcall.list[fcall.jj])
    /\ fcall' = [ fcall EXCEPT !.jj = @ + 1 ]
    /\ UNCHANGED <<agravbuf, gpotbuf, called, visits, ncalls, params, restF>>

ComputeSphHydroGravForces ==
    /\ InLoop("hydrograv")
    /\ sph' = HydroGravForcesPair(sph, fcall.i, fcall.list[fcall.jj])
    /\ fcall' = [ fcall EXCEPT !.jj = @ + 1 ]
    /\ UNCHANGED <<agravbuf, gpotbuf, called, visits, ncalls, params, restF>>

ComputeSphGravForces ==
    /\ InLoop("grav")
    /\ sph' = GravForcesPair(sph, fcall.i, fcall.list[fcall.jj])
    /\ fcall' = [ fcall EXCEPT !.jj = @ + 1 ]
    /\ UNCHANGED <<agravbuf, gpotbuf, called, visits, ncalls, params, restF>>

\* The loop of the routine in progress is exhausted: return
ForceReturn ==
    /\ fcall.fn # "none"
    /\ fcall.jj > Len(fcall.list)
    /\ fcall' = NoCall
    /\ UNCHANGED <<sph, agravbuf, gpotbuf, called, visits, ncalls, params, restF>>

ForceNext ==
    \/ \E i \in Part : CallDirectGravForces(i)
    \/ \E i \in Part : \E nlist \in NeibLists(i) : CallNeibForces(i, nlist)
    \/ ComputeDirectGravForces
    \/ ComputeSphHydroForces
    \/ ComputeSphHydroGravForces
    \/ ComputeSphGravForces
    \/ ForceReturn


(***************************************************************************)
(* Claims about the pair forces                                            *)
(***************************************************************************)
\* The direct sweep is over: every active particle had its call, none runs
SweepDone ==
    /\ fcall.fn = "none"
    /\ called = { i \in Part : sph[i].active }

\* The particle from whose side the pair {i, j} is to be taken
PairOwner(pr) ==
    LET lo == CHOOSE x \in pr : \A y \in pr : x <= y
        hi == CHOOSE x \in pr : \A y \in pr : x >= y
    IN  IF sph[lo].active THEN <<lo>>
        ELSE IF sph[hi].active THEN <<hi>> ELSE <<>>

\* C1: with ComputeDirectGravForces called once for every active particle
\* over a list of all other particles, no pair is ever evaluated twice, and
\* once the sweep is over every pair with an active member has been
\* evaluated exactly once: from the side of its lower index when that one is
\* active (j > i), else from the side of its active higher index (j < i
\* inactive); a pair of two inactive particles is never evaluated.
C1_EachPairOnce ==
    /\ \A pr \in Pairs : Len(visits[pr]) <= 1
    /\ SweepDone => \A pr \in Pairs : visits[pr] = PairOwner(pr)

\* C1 witness: a finished sweep with a pair of two active particles and a
\* pair taken from the side of its higher index
C1_Witness ==
    /\ SweepDone
    /\ \E pr \in Pairs : \A x \in pr : sph[x].active
    /\ \E pr \in Pairs : \E x \in pr :
          visits[pr] = <<x>> /\ \E y \in pr : y < x

\* mass-weighted sum of the hydro accelerations, and of the gravitational
\* ones (parti.agrav plus the agrav[] array), over particles 0..k
RECURSIVE MSumA(_, _)
MSumA(S, k) == IF k < 0 THEN 0 ELSE S[k].m * S[k].a + MSumA(S, k - 1)

RECURSIVE MSumAgrav(_, _, _)
MSumAgrav(S, ag, k) ==
    IF k < 0 THEN 0
    ELSE S[k].m * (S[k].agrav + ag[k]) + MSumAgrav(S, ag, k - 1)

FPrec == 10             \* mantissa bits of the model's FLOAT

RECURSIVE BitLen(_)
BitLen(a) == IF a = 0 THEN 0 ELSE 1 + (CHOOSE n \in { BitLen(h) : h \in {a \div 2} } : TRUE)

\* the FLOAT nearest to the integer m times 2^e
FNorm(m0, e0) ==
    CHOOSE z \in
        { IF m = 0 THEN <<0, 0>>
          ELSE IF len <= FPrec
               THEN <<m * 2 ^ (FPrec - len), e - (FPrec - len)>>
               ELSE LET k == len - FPrec
                        q == (Abs(m) + 2 ^ (k - 1)) \div 2 ^ k
                    IN  IF q = 2 ^ FPrec
                        THEN <<Sign(m) * 2 ^ (FPrec - 1), e + k + 1>>
                        ELSE <<Sign(m) * q, e + k>>
          : m \in {m0}, e \in {e0}, len \in {BitLen(Abs(m0))} } : TRUE

FZero == <<0, 0>>

FInt(n) == FNorm(n, 0)

\* (the operands of FNorm, FMul, FDiv and FAdd are bound to their values once)
FMul(x0, y0) ==
    CHOOSE z \in { FNorm(x[1] * y[1], x[2] + y[2]) : x \in {x0}, y \in {y0} } : TRUE

\* x / y for y # 0
FDiv(x0, y0) ==
    CHOOSE z \in
        { FNorm(Sign(x[1]) * Sign(y[1]) *
                ((Abs(x[1]) * 2 ^ (FPrec + 1)) \div Abs(y[1])),
                x[2] - y[2] - (FPrec + 1)) : x \in {x0}, y \in {y0} } : TRUE

FRat(n, d) == FDiv(FInt(n), FInt(d))

FNeg(x) == <<-x[1], x[2]>>

\* x + y: exact alignment when the exponents are close, else the operand of
\* larger magnitude (the other lies below its last bit)
FAdd(x0, y0) ==
    CHOOSE z \in
        { IF x[1] = 0 THEN y
          ELSE IF y[1] = 0 THEN x
          ELSE IF x[2] - y[2] > FPrec + 1 THEN x
          ELSE IF y[2] - x[2] > FPrec + 1 THEN y
          ELSE LET e == Min2(x[2], y[2])
               IN  FNorm(x[1] * 2 ^ (x[2] - e) + y[1] * 2 ^ (y[2] - e), e)
          : x \in {x0}, y \in {y0} } : TRUE

FSub(x, y) == FAdd(x, FNeg(y))

FLt(x, y) == FSub(x, y)[1] < 0

FLe(x, y) == FSub(x, y)[1] <= 0

FAbs(x) == <<Abs(x[1]), x[2]>>

FMax(x, y) == IF FLt(x, y) THEN y ELSE x

FHalf(x) == IF x[1] = 0 THEN x ELSE <<x[1], x[2] - 1>>

FOne == FInt(1)

iteration_max == 30     \* "Max. no of iterations"
KernRes == 4            \* cells of the kernel table over [0, kernrangesqd)
MaxNeib == 3            \* longest neighbour list handed to ComputeH

\* small_number of Constants.h (about 1.0e-20)
small_number == FNorm(1, -66)

\* kernrangesqd of the M4 kernel
kernrangesqd == kernrange * kernrange

\* The cell of the uniform s^2 table holding ssqd (KernRes when outside)
RECURSIVE KernCellFrom(_, _)
KernCellFrom(ssqd, c) ==
    IF c >= KernRes THEN KernRes
    ELSE IF FLt(ssqd, FRat((c + 1) * kernrangesqd, KernRes)) THEN c
    ELSE KernCellFrom(ssqd, c + 1)

KernCell(ssqd) == KernCellFrom(ssqd, 0)

\* kern.w0_s2: tabulated kernel, halving twice per cell, zero outside
w0_s2(ssqd) ==
    LET c == KernCell(ssqd)
    IN  IF c >= KernRes THEN FZero ELSE FNorm(1, -(1 + 2 * c))

\* kern.womega_s2: tabulated, zero outside
womega_s2(ssqd) ==
    LET c == KernCell(ssqd)
    IN  IF c >= KernRes THEN FZero ELSE FNorm(1, -(2 + c))

\* kern.wzeta_s2: tabulated, zero outside
wzeta_s2(ssqd) ==
    LET c == KernCell(ssqd)
    IN  IF c >= KernRes THEN FZero ELSE FNeg(FNorm(1, -c))

\* The neighbour loop (lines 129-134): the sums over neighbours 1..j
RECURSIVE RhoSum(_, _, _)
RhoSum(nb, invhsqd, j) ==
    IF j = 0 THEN FZero
    ELSE FAdd(RhoSum(nb, invhsqd, j - 1),
              FMul(nb.m[j], w0_s2(FMul(nb.drsqd[j], invhsqd))))

RECURSIVE OmegaSum(_, _, _, _)
OmegaSum(nb, invh, invhsqd, j) ==
    IF j = 0 THEN FZero
    ELSE FAdd(OmegaSum(nb, invh, invhsqd, j - 1),
              FMul(FMul(nb.m[j], invh), womega_s2(FMul(nb.drsqd[j], invhsqd))))

RECURSIVE ZetaSum(_, _, _)
ZetaSum(nb, invhsqd, j) ==
    IF j = 0 THEN FZero
    ELSE FAdd(ZetaSum(nb, invhsqd, j - 1),
              FMul(nb.m[j], wzeta_s2(FMul(nb.drsqd[j], invhsqd))))

\* "Initialise all variables for this value of h" and the sums rho,
\* invomega and zeta for smoothing length h (lines 117-139)
DensitySums(h, nb) ==
    LET invh == FDiv(FOne, h)
        hfactor == invh
        invhsqd == FMul(invh, invh)
    IN  [ invh |-> invh, hfactor |-> hfactor,
          rho |-> FMul(RhoSum(nb, invhsqd, Len(nb.m)), hfactor),
          invomega |-> FMul(OmegaSum(nb, invh, invhsqd, Len(nb.m)), hfactor),
          zeta |-> FMul(ZetaSum(nb, invhsqd, Len(nb.m)), invhsqd) ]

\* h_fac*pow(parti.m*parti.invrho, invndim)
HTarget(p) == FMul(hpar.h_fac, FMul(p.m, p.invrho))

\* The particle after the sums of one iteration (lines 117-141)
HEvaluate(p) ==
    LET sums == DensitySums(p.h, neib)
    IN  [ p EXCEPT !.invh = sums.invh, !.rho = sums.rho,
                   !.invomega = sums.invomega, !.zeta = sums.zeta,
                   !.chi = FZero, !.hfactor = sums.hfactor,
                   !.invrho = IF FLt(FZero, sums.rho)
                              THEN FDiv(FOne, sums.rho) ELSE @ ]

\* The sum of SM2012Sph::ComputeH over mu[j] (part_001, line 128)
RECURSIVE QSum(_, _, _)
QSum(nb, invhsqd, j) ==
    IF j = 0 THEN FZero
    ELSE FAdd(QSum(nb, invhsqd, j - 1),
              FMul(nb.mu[j], w0_s2(FMul(nb.drsqd[j], invhsqd))))

\* parti.zeta += m[j]*kern.wzeta_s2(ssqd) over neighbours 1..j, on top of
\* the value zeta0 that parti.zeta holds when the loop starts
RECURSIVE ZetaSumFrom(_, _, _, _)
ZetaSumFrom(zeta0, nb, invhsqd, j) ==
    IF j = 0 THEN zeta0
    ELSE FAdd(ZetaSumFrom(zeta0, nb, invhsqd, j - 1),
              FMul(nb.m[j], wzeta_s2(FMul(nb.drsqd[j], invhsqd))))

\* The particle after the sums of one iteration of SM2012Sph::ComputeH
\* (part_001, lines 113-138): rho, invomega and q start from zero, zeta
\* from what the particle holds, chi is not touched
SM2012_HEvaluate(p) ==
    LET sums == DensitySums(p.h, neib)
        invhsqd == FMul(sums.invh, sums.invh)
    IN  [ p EXCEPT !.invh = sums.invh, !.rho = sums.rho,
                   !.invomega = sums.invomega,
                   !.q = FMul(QSum(neib, invhsqd, Len(neib.m)), sums.hfactor),
                   !.zeta = FMul(ZetaSumFrom(p.zeta, neib, invhsqd, Len(neib.m)),
                                 invhsqd),
                   !.hfactor = sums.hfactor,
                   !.invrho = IF FLt(FZero, sums.rho)
                              THEN FDiv(FOne, sums.rho) ELSE @ ]

\* The sums of the ComputeH in use: GradhSph's or SM2012Sph's
Evaluate(p) ==
    IF hpar.scheme = "SM2012Sph" THEN SM2012_HEvaluate(p) ELSE HEvaluate(p)

\* "If h changes below some fixed tolerance, exit iteration loop"
HConverged(p, lo) ==
    /\ FLt(FZero, p.rho)
    /\ FLt(lo, p.h)
    /\ FLt(FAbs(FSub(p.h, HTarget(p))), hpar.h_converge)

\* A solver that also returns 0 when the new h equals hmax
HAfterUpdate_AtHmax(p, it, lo, ub) ==
    /\ parti' = p
    /\ hst' = IF FLe(neib.hmax, p.h)
              THEN [ hst EXCEPT !.iteration = it, !.h_lower_bound = lo,
                                !.h_upper_bound = ub,
                                !.pc = "done", !.result = 0 ]
              ELSE [ hst EXCEPT !.iteration = it, !.h_lower_bound = lo,
                                !.h_upper_bound = ub,
                                !.pc = IF FLt(lo, p.h) /\ FLt(p.h, ub)
                                       THEN "loop" ELSE "finish" ]
    /\ UNCHANGED <<neib, hpar, restH>>

\* Lines 179-184: return 0 when h left the neighbour list, else test the
\* loop condition
HAfterUpdate(p, it, lo, ub) ==
    /\ parti' = p
    /\ hst' = IF FLt(neib.hmax, p.h)
              THEN [ hst EXCEPT !.iteration = it, !.h_lower_bound = lo,
                                !.h_upper_bound = ub,
                                !.pc = "done", !.result = 0 ]
              ELSE [ hst EXCEPT !.iteration = it, !.h_lower_bound = lo,
                                !.h_upper_bound = ub,
                                !.pc = IF FLt(lo, p.h) /\ FLt(p.h, ub)
                                       THEN "loop" ELSE "finish" ]
    /\ UNCHANGED <<neib, hpar, restH>>

\* A solver without the hard cap: it bisects for ever
HBranch_NoCap(iteration) ==
    IF iteration < iteration_max THEN "fixed-point"
    ELSE IF iteration = iteration_max THEN "midpoint"
    ELSE "bisect"

\* The if / else if chain of lines 153-176 on the iteration counter
HBranch(iteration) ==
    IF iteration < iteration_max THEN "fixed-point"
    ELSE IF iteration = iteration_max THEN "midpoint"
    ELSE IF iteration < 5 * iteration_max THEN "bisect"
    ELSE "raise"

\* One pass of the loop that ends in the break of line 146
ComputeH_Converged ==
    /\ hst.pc = "loop"
    /\ \E p \in {Evaluate(parti)} :
           /\ HConverged(p, hst.h_lower_bound)
           /\ parti' = p
           /\ hst' = [ hst EXCEPT !.iteration = @ + 1, !.pc = "finish",
                                  !.converged = TRUE ]
    /\ UNCHANGED <<neib, hpar, restH>>

\* One pass of the loop with the fixed-point update (iteration < 30)
ComputeH_FixedPoint ==
    /\ hst.pc = "loop"
    /\ HBranch(hst.iteration + 1) = "fixed-point"
    /\ \E p \in {Evaluate(parti)} :
           /\ ~HConverged(p, hst.h_lower_bound)
           /\ HAfterUpdate([ p EXCEPT !.h = HTarget(p) ], hst.iteration + 1,
                           hst.h_lower_bound, hst.h_upper_bound)

\* The pass of iteration 30: jump to the middle of the bracket
ComputeH_Midpoint ==
    /\ hst.pc = "loop"
    /\ HBranch(hst.iteration + 1) = "midpoint"
    /\ \E p \in {Evaluate(parti)} :
           /\ ~HConverged(p, hst.h_lower_bound)
           /\ HAfterUpdate(
                [ p EXCEPT !.h = FHalf(FAdd(hst.h_lower_bound,
                                            hst.h_upper_bound)) ],
                hst.iteration + 1, hst.h_lower_bound, hst.h_upper_bound)

\* The bisection test of lines 161-162: h is an upper bound
HTooLarge(p) ==
    \/ FLt(p.rho, small_number)
    \/ FLt(FMul(hpar.h_fac, p.m), FMul(p.rho, p.h))

\* One pass of the loop with a bisection step (30 < iteration < 150)
ComputeH_Bisect ==
    /\ hst.pc = "loop"
    /\ HBranch(hst.iteration + 1) = "bisect"
    /\ \E p \in {Evaluate(parti)} : \E big \in {HTooLarge(p)} :
       \E ub \in {IF big THEN p.h ELSE hst.h_upper_bound},
          lo \in {IF big THEN hst.h_lower_bound ELSE p.h} :
           /\ ~HConverged(p, hst.h_lower_bound)
           /\ HAfterUpdate([ p EXCEPT !.h = FHalf(FAdd(lo, ub)) ],
                           hst.iteration + 1, lo, ub)

\* ExceptionHandler::raise: the call does not return to the solver
Raise(st, message) == [ st EXCEPT !.pc = "error", !.error = message ]

\* The pass of iteration 150: the solver gives up
ComputeH_Raise ==
    /\ hst.pc = "loop"
    /\ HBranch(hst.iteration + 1) = "raise"
    /\ \E p \in {Evaluate(parti)} :
           /\ ~HConverged(p, hst.h_lower_bound)
           /\ parti' = p
           /\ hst' = Raise([ hst EXCEPT !.iteration = @ + 1 ],
                           "Problem with convergence of h-rho iteration")
    /\ UNCHANGED <<neib, hpar, restH>>

\* "Normalise all SPH sums correctly" and the return value (lines 188-239),
\* for a run without star particles
HFinish(p, lo) ==
    LET h == FMax(HTarget(p), lo)
        invomega == FDiv(FOne, FAdd(FOne, FMul(FMul(h, p.invomega), p.invrho)))
    IN  [ p EXCEPT !.h = h,
                   !.invh = FDiv(FOne, h),
                   !.invomega = invomega,
                   !.zeta = FNeg(FMul(FMul(FMul(h, p.zeta), p.invrho), invomega)),
                   !.hfactor = FMul(FDiv(FOne, h), FDiv(FOne, h)),
                   !.chi = FZero ]

\* The same lines of SM2012Sph::ComputeH (part_001, lines 180-227) for a
\* run without star particles: chi is computed from the chi the particle
\* holds
SM2012_HFinish(p, lo) ==
    LET h == FMax(HTarget(p), lo)
        invomega == FDiv(FOne, FAdd(FOne, FMul(FMul(h, p.invomega), p.invrho)))
    IN  [ p EXCEPT !.h = h,
                   !.invh = FDiv(FOne, h),
                   !.invomega = invomega,
                   !.zeta = FNeg(FMul(FMul(FMul(h, p.zeta), p.invrho), invomega)),
                   !.hfactor = FMul(FDiv(FOne, h), FDiv(FOne, h)),
                   !.chi = FNeg(FMul(FMul(FMul(h, p.chi), p.invrho), invomega)) ]

Finish(p, lo) ==
    IF hpar.scheme = "SM2012Sph" THEN SM2012_HFinish(p, lo) ELSE HFinish(p, lo)

ComputeH_Finish ==
    /\ hst.pc = "finish"
    /\ parti' = Finish(parti, hst.h_lower_bound)
    /\ hst' = [ hst EXCEPT !.pc = "done",
                           !.result = IF FLe(parti'.h, neib.hmax) THEN 1 ELSE -1 ]
    /\ UNCHANGED <<neib, hpar, restH>>

\* The first n neighbours of a lattice of unit masses at distances k/2,
\* k = first, first + 1, ...
LatticeNeib(first, n) ==
    [ m |-> [ k \in 1 .. n |-> FOne ],
      drsqd |-> [ k \in 1 .. n |-> FRat((first + k - 1) * (first + k - 1), 4) ] ]

\* Entry of ComputeH (lines 99-109)
HEntry(sinkid, hmax, hmin_sink) ==
    [ iteration |-> 0,
      h_lower_bound |-> IF sinkid # -1 THEN hmin_sink ELSE FZero,
      h_upper_bound |-> hmax,
      pc |-> "loop", result |-> 2, error |-> "", converged |-> FALSE ]

HInit ==
    /\ \E first \in {0, 2}, n \in 0 .. MaxNeib, hmax \in {FInt(2), FInt(4)} :
          LET nb == LatticeNeib(first, n)
          IN  neib = [ m |-> nb.m, drsqd |-> nb.drsqd, hmax |-> hmax ]
    /\ \E h_fac \in {FOne, FRat(5, 4)} :
          hpar = [ h_fac |-> h_fac, h_converge |-> FRat(1, 64),
                   hmin_sink |-> FRat(1, 2), scheme |-> "GradhSph" ]
    /\ \E h0 \in {FRat(1, 4), FOne, FInt(3)},
          invrho0 \in {FRat(1, 2), FInt(2), FInt(8)},
          sinkid \in {-1, 0} :
          parti = [ h |-> h0, m |-> FOne, invrho |-> invrho0, sinkid |-> sinkid,
                    rho |-> FZero, invh |-> FZero, hfactor |-> FZero,
                    invomega |-> FZero, zeta |-> FZero, chi |-> FZero ]
    /\ hst = HEntry(parti.sinkid, neib.hmax, hpar.hmin_sink)

HNext ==
    \/ ComputeH_Converged
    \/ ComputeH_FixedPoint
    \/ ComputeH_Midpoint
    \/ ComputeH_Bisect
    \/ ComputeH_Raise
    \/ ComputeH_Finish

(***************************************************************************)
(* Claims about ComputeH (specification SpecH)                             *)
(***************************************************************************)
\* A pass of the loop that did not leave by the break of line 146
HPass == hst.pc = "loop" /\ hst' # hst /\ ~hst'.converged

HMid(lo, ub) == FHalf(FAdd(lo, ub))

\* C3: ComputeH evaluates the density at most 150 times.  Every pass counts
\* one evaluation; a pass that does not converge uses the fixed-point update
\* when it is pass 1..29, the midpoint of [h_lo, h_hi] when it is pass 30, a
\* bisection step (one bound moves to the old h, h moves to the middle) when
\* it is pass 31..149, and pass 150 raises "Problem with convergence of h-rho
\* iteration"; nothing runs after the raise.
C3_HardCap ==
    [][ /\ hst'.iteration <= 150
        /\ hst.pc = "loop" => hst'.iteration = hst.iteration + 1
        /\ hst.pc # "loop" => hst'.iteration = hst.iteration
        /\ hst.pc = "error" => hst' = hst /\ parti' = parti
        /\ (HPass /\ hst'.iteration \in 1 .. 29) =>
              /\ parti'.h = HTarget(parti')
              /\ hst'.h_lower_bound = hst.h_lower_bound
              /\ hst'.h_upper_bound = hst.h_upper_bound
              /\ hst'.pc # "error"
        /\ (HPass /\ hst'.iteration = 30) =>
              /\ parti'.h = HMid(hst.h_lower_bound, hst.h_upper_bound)
              /\ hst'.h_lower_bound = hst.h_lower_bound
              /\ hst'.h_upper_bound = hst.h_upper_bound
              /\ hst'.pc # "error"
        /\ (HPass /\ hst'.iteration \in 31 .. 149) =>
              /\ parti'.h = HMid(hst'.h_lower_bound, hst'.h_upper_bound)
              /\ \/ /\ hst'.h_upper_bound = parti.h
                    /\ hst'.h_lower_bound = hst.h_lower_bound
                 \/ /\ hst'.h_lower_bound = parti.h
                    /\ hst'.h_upper_bound = hst.h_upper_bound
              /\ hst'.pc # "error"
        /\ (HPass /\ hst'.iteration = 150) =>
              /\ hst'.pc = "error"
              /\ hst'.error = "Problem with convergence of h-rho iteration"
              /\ parti'.h = parti.h
      ]_vars

\* The solver gave up at the 150th evaluation after bisecting
C3_Witness ==
    /\ hst.pc = "error"
    /\ hst.iteration = 150
    /\ hst.error = "Problem with convergence of h-rho iteration"
    /\ hst.h_upper_bound # neib.hmax

HLo == IF parti.sinkid # -1 THEN hpar.hmin_sink ELSE FZero

\* C5: when ComputeH returns 1 the stored h and rho satisfy
\* |h - h_fac*(m/rho)| <= h_converge*h, or h = h_lo; a particle inside a
\* sink does not end with h below hmin_sink.
C5_DensityConsistency ==
    (hst.pc = "done" /\ hst.result = 1) =>
        /\ \/ /\ FLt(FZero, parti.rho)
              /\ FLe(FAbs(FSub(parti.h,
                               FMul(hpar.h_fac, FDiv(parti.m, parti.rho)))),
                     FMul(hpar.h_converge, parti.h))
           \/ parti.h = HLo
        /\ parti.sinkid # -1 => FLe(hpar.hmin_sink, parti.h)

\* The case C5 fails on: ComputeH returned 1 for a particle inside a sink
\* whose last density sum is zero, with h above h_lo
C5_ZeroDensityReturn ==
    /\ hst.pc = "done" /\ hst.result = 1
    /\ parti.sinkid # -1
    /\ parti.rho = FZero
    /\ FLt(HLo, parti.h)
    /\ hst.iteration > iteration_max

\* C6: with no neighbour contributing to the density sum, no pass shrinks
\* h, no pass raises the convergence error, and ComputeH ends by returning 0
\* with h above hmax.
C6_IsolatedGrows ==
    [][ (Len(neib.m) = 0 /\ hst.pc = "loop") =>
            /\ parti'.rho = FZero
            /\ FLe(parti.h, parti'.h)
            /\ hst'.pc # "error"
            /\ hst'.pc = "done" => (hst'.result = 0 /\ FLt(neib.hmax, parti'.h))
      ]_vars

\* The isolated particle's h was bisected downwards until the solver gave up
C6_IsolatedRaise ==
    /\ Len(neib.m) = 0
    /\ hst.pc = "error"
    /\ FLt(parti.h, hst.h_upper_bound)
    /\ FLt(hst.h_upper_bound, neib.hmax)

(***************************************************************************)
(* PART 3.  Ghost particles (Ghosts.cpp), ndim = 3                         *)
(***************************************************************************)
MaxNsph == 2            \* real particles on this node
MaxSlots == 6           \* largest capacity Nsphmax of the particle array
MaxMpiGhosts == 2       \* particles the other node exports
MaxMoves == 1           \* integration steps between ghost calls

ndim == 3

Axes == 0 .. (ndim - 1)

kernfac == 1

Vec(x, y, z) == [ k \in Axes |-> <<x, y, z>>[k + 1] ]

\* The ghost types of the three axes, by side and kind of the boundary
GhostType(k, side, kind) ==
    IF side = "lhs"
    THEN IF kind = "periodic"
         THEN <<"x_lhs_periodic", "y_lhs_periodic", "z_lhs_periodic">>[k + 1]
         ELSE <<"x_lhs_mirror", "y_lhs_mirror", "z_lhs_mirror">>[k + 1]
    ELSE IF kind = "periodic"
         THEN <<"x_rhs_periodic", "y_rhs_periodic", "z_rhs_periodic">>[k + 1]
         ELSE <<"x_rhs_mirror", "y_rhs_mirror", "z_rhs_mirror">>[k + 1]

\* A ghost that takes iorig from its source, as the code of lines 263-266
\* that is commented out would for a ghost of a ghost
CreateGhostParticle_OrigOfSource(S, i, k, rk, vk, ghosttype) ==
    IF S.pc # "run" THEN S
    ELSE IF S.Nghost > S.Nghostmax
    THEN Raise(S, "Not enough memory for new ghost")
    ELSE [ S EXCEPT
             !.sphdata[S.Nsph + S.Nghost] =
                 [ S.sphdata[i] EXCEPT !.r[k] = rk, !.v[k] = vk,
                                       !.active = FALSE, !.itype = ghosttype,
                                       !.iorig = IF i >= S.Nsph
                                                 THEN S.sphdata[i].iorig ELSE i ],
             !.Nghost = @ + 1 ]

\* PeriodicGhosts::CreateGhostParticle.  sphdata has the slots 0 .. Nsphmax-1;
\* the model keeps one more cell, sphdata[Nsphmax], for the memory behind the
\* array, which the call writes when Nghost = Nghostmax.
CreateGhostParticle(S, i, k, rk, vk, ghosttype) ==
    IF S.pc # "run" THEN S
    ELSE IF S.Nghost > S.Nghostmax
    THEN Raise(S, "Not enough memory for new ghost")
    ELSE [ S EXCEPT
             !.sphdata[S.Nsph + S.Nghost] =
                 [ S.sphdata[i] EXCEPT !.r[k] = rk, !.v[k] = vk,
                                       !.active = FALSE, !.itype = ghosttype,
                                       !.iorig = i ],
             !.Nghost = @ + 1 ]

\* Lines 141-149: particle i against the lower face of axis k
SearchLhs(S, box, tghost, k, i) ==
    IF S.pc = "run" /\
       S.sphdata[i].r[k] + Min2(0, S.sphdata[i].v[k] * tghost) <
           box.boxmin[k] + box.ghost_range * kernrange * kernfac * S.sphdata[i].h
    THEN IF box.boundary_lhs[k] = "periodic"
         THEN CreateGhostParticle(S, i, k, S.sphdata[i].r[k] + box.boxsize[k],
                                  S.sphdata[i].v[k], GhostType(k, "lhs", "periodic"))
         ELSE IF box.boundary_lhs[k] = "mirror"
         THEN CreateGhostParticle(S, i, k, 2 * box.boxmin[k] - S.sphdata[i].r[k],
                                  -S.sphdata[i].v[k], GhostType(k, "lhs", "mirror"))
         ELSE S
    ELSE S

\* Lines 150-158: particle i against the upper face of axis k
SearchRhs(S, box, tghost, k, i) ==
    IF S.pc = "run" /\
       S.sphdata[i].r[k] + Max2(0, S.sphdata[i].v[k] * tghost) >
           box.boxmax[k] - box.ghost_range * kernrange * kernfac * S.sphdata[i].h
    THEN IF box.boundary_rhs[k] = "periodic"
         THEN CreateGhostParticle(S, i, k, S.sphdata[i].r[k] - box.boxsize[k],
                                  S.sphdata[i].v[k], GhostType(k, "rhs", "periodic"))
         ELSE IF box.boundary_rhs[k] = "mirror"
         THEN CreateGhostParticle(S, i, k, 2 * box.boxmax[k] - S.sphdata[i].r[k],
                                  -S.sphdata[i].v[k], GhostType(k, "rhs", "mirror"))
         ELSE S
    ELSE S

\* for (i=0; i<sph->Ntot; i++) of axis k, from particle i on; Ntot is fixed
\* while the loop runs
RECURSIVE SearchLoop(_, _, _, _, _)
SearchLoop(S, box, tghost, k, i) ==
    IF i >= S.Ntot THEN S
    ELSE SearchLoop(SearchRhs(SearchLhs(S, box, tghost, k, i), box, tghost, k, i),
                    box, tghost, k, i + 1)

\* sph->Ntot = sph->Nsph + sph->Nghost, unless an error was raised before
SetNtot(S) == IF S.pc = "run" THEN [ S EXCEPT !.Ntot = S.Nsph + S.Nghost ] ELSE S

\* Lines 136-217: the axes in turn, skipping an axis open on both sides
RECURSIVE SearchAxes(_, _, _, _)
SearchAxes(S, box, tghost, k) ==
    IF k >= ndim THEN S
    ELSE IF box.boundary_lhs[k] = "open" /\ box.boundary_rhs[k] = "open"
    THEN SearchAxes(S, box, tghost, k + 1)
    ELSE SearchAxes(SetNtot(SearchLoop(S, box, tghost, k, 0)), box, tghost, k + 1)

AllOpen(box) ==
    \A k \in Axes : box.boundary_lhs[k] = "open" /\ box.boundary_rhs[k] = "open"

\* Lines 219-225: the final memory check and NPeriodicGhost
SearchEnd(S) ==
    IF S.pc # "run" THEN S
    ELSE IF S.Ntot > S.Nsphmax
    THEN Raise(S, "Not enough memory for ghost particles")
    ELSE [ S EXCEPT !.NPeriodicGhost = S.Nghost ]

\* Lines 122-126: "Set all relevant particle counters"
SearchReset(S) ==
    [ S EXCEPT !.Nghost = 0, !.NPeriodicGhost = 0,
               !.Nghostmax = S.Nsphmax - S.Nsph, !.Ntot = S.Nsph ]

\* PeriodicGhosts::SearchGhostParticles as a function of the Sph object
SearchGhosts(S, box, tghost) ==
    IF AllOpen(box) THEN SearchReset(S)
    ELSE SearchEnd(SearchAxes(SearchReset(S), box, tghost, 0))

\* Lines 312-316: "Modify ghost position based on ghost type"
ShiftGhost(p, box) ==
    IF p.itype = "x_lhs_periodic" THEN [ p EXCEPT !.r[0] = @ + box.boxsize[0] ]
    ELSE IF p.itype = "x_rhs_periodic" THEN [ p EXCEPT !.r[0] = @ - box.boxsize[0] ]
    ELSE IF p.itype = "y_lhs_periodic" THEN [ p EXCEPT !.r[1] = @ + box.boxsize[1] ]
    ELSE IF p.itype = "y_rhs_periodic" THEN [ p EXCEPT !.r[1] = @ - box.boxsize[1] ]
    ELSE p

\* A refresh that leaves the ghost with the active flag of its origin
RefreshGhost_KeepActive(S, box, j) ==
    [ S EXCEPT !.sphdata[S.Nsph + j] =
        ShiftGhost([ S.sphdata[S.sphdata[S.Nsph + j].iorig] EXCEPT
                       !.iorig = S.sphdata[S.Nsph + j].iorig,
                       !.itype = S.sphdata[S.Nsph + j].itype ], box) ]

\* The body of the loop of CopySphDataToGhosts for ghost j (lines 298-316)
RefreshGhost(S, box, j) ==
    [ S EXCEPT !.sphdata[S.Nsph + j] =
        ShiftGhost([ S.sphdata[S.sphdata[S.Nsph + j].iorig] EXCEPT
                       !.iorig = S.sphdata[S.Nsph + j].iorig,
                       !.itype = S.sphdata[S.Nsph + j].itype,
                       !.active = FALSE ], box) ]

\* for (j=0; j<sph->NPeriodicGhost; j++), from ghost j on
RECURSIVE CopyLoop(_, _, _)
CopyLoop(S, box, j) ==
    IF j >= S.NPeriodicGhost THEN S
    ELSE CopyLoop(RefreshGhost(S, box, j), box, j + 1)

\* MpiControl::SendReceiveGhosts and UpdateGhostParticles: the exported
\* particles, read through particles_to_export_per_node, arrive in
\* particles_receive
Alltoallv(m) == [ m EXCEPT !.particles_receive = m.exported ]

\* main_array[i] = ghost_array[j]; main_array[i].active = false
StoreMpiGhost(S, ghost_array, j) ==
    [ S EXCEPT !.sphdata[S.Nsph + S.NPeriodicGhost + j] =
                   [ ghost_array[j + 1] EXCEPT !.active = FALSE ] ]

\* for (j=0; j<Nmpighosts; j++), from ghost j on
RECURSIVE MpiStoreLoop(_, _, _)
MpiStoreLoop(S, ghost_array, j) ==
    IF j >= Len(ghost_array) THEN S
    ELSE MpiStoreLoop(StoreMpiGhost(S, ghost_array, j), ghost_array, j + 1)

\* Lines 398-404 of MPIGhosts::SearchGhostParticles
MpiSearchEnd(S, Nmpighosts) ==
    IF S.Nghost + Nmpighosts > S.Nghostmax \/ S.Ntot + Nmpighosts > S.Nsphmax
    THEN Raise([ S EXCEPT !.Nghost = @ + Nmpighosts, !.Ntot = @ + Nmpighosts ], "")
    ELSE [ S EXCEPT !.Nghost = @ + Nmpighosts, !.Ntot = @ + Nmpighosts ]

\* MPIGhosts::SearchGhostParticles as a function of the Sph object
MpiSearchGhosts(S, ghost_array) ==
    IF S.Ntot + Len(ghost_array) > S.Nsphmax
    THEN Raise(S, "")
    ELSE MpiSearchEnd(MpiStoreLoop(S, ghost_array, 0), Len(ghost_array))

\* The real particles the behaviours start from: near the lower x face,
\* in the lower corner, in the upper corner of the box
Seeds ==
    << [ r |-> Vec(1, 5, 6), v |-> Vec(0, 0, 0) ],
       [ r |-> Vec(1, 1, 1), v |-> Vec(1, -1, 2) ],
       [ r |-> Vec(7, 9, 11), v |-> Vec(-1, 1, 0) ] >>

RealParticle(seed) ==
    [ r |-> seed.r, v |-> seed.v, h |-> 1, m |-> 1, active |-> TRUE,
      itype |-> "none", iorig |-> -1 ]

NoParticle ==
    [ r |-> Vec(0, 0, 0), v |-> Vec(0, 0, 0), h |-> 0, m |-> 0, active |-> FALSE,
      itype |-> "none", iorig |-> -1 ]

\* The j-th particle the other node exports: a real particle of that node
\* or one of its periodic ghosts
RemoteParticle(j) ==
    [ r |-> Vec(9 + j, 5, 6), v |-> Vec(0, j, 0), h |-> 1, m |-> 2, active |-> TRUE,
      itype |-> IF j % 2 = 1 THEN "none" ELSE "x_rhs_periodic",
      iorig |-> IF j % 2 = 1 THEN -1 ELSE 0 ]

\* Boundary settings <<lhs, rhs>> of the three axes
BoxKinds ==
    { << <<"open", "open", "open">>, <<"open", "open", "open">> >>,
      << <<"periodic", "open", "open">>, <<"periodic", "open", "open">> >>,
      << <<"open", "periodic", "open">>, <<"open", "periodic", "open">> >>,
      << <<"open", "open", "periodic">>, <<"open", "open", "periodic">> >>,
      << <<"mirror", "open", "open">>, <<"open", "open", "open">> >>,
      << <<"periodic", "periodic", "periodic">>,
         <<"periodic", "periodic", "periodic">> >>,
      << <<"mirror", "mirror", "mirror">>, <<"mirror", "mirror", "mirror">> >>,
      << <<"periodic", "mirror", "open">>, <<"periodic", "mirror", "open">> >> }

\* Values of ghost_range, which the sources use but do not define
GhostRanges == {1, 2}

SeedSeqs ==
    UNION { { q \in [1 .. n -> 1 .. Len(Seeds)] :
                \A a \in 1 .. (n - 1) : q[a] <= q[a + 1] } : n \in 1 .. MaxNsph }

GhostInit ==
    /\ \E kinds \in BoxKinds, gr \in GhostRanges :
          simbox = [ boundary_lhs |-> [ k \in Axes |-> kinds[1][k + 1] ],
                     boundary_rhs |-> [ k \in Axes |-> kinds[2][k + 1] ],
                     boxmin |-> Vec(0, 0, 0), boxmax |-> Vec(8, 10, 12),
                     boxsize |-> Vec(8, 10, 12), ghost_range |-> gr ]
    /\ \E seeds \in SeedSeqs : \E cap \in {Len(seeds) + 1, MaxSlots} :
          gsph = [ sphdata |-> [ i \in 0 .. cap |->
                                   IF i < Len(seeds)
                                   THEN RealParticle(Seeds[seeds[i + 1]])
                                   ELSE NoParticle ],
                   Nsph |-> Len(seeds), Nsphmax |-> cap, Nghost |-> 0,
                   NPeriodicGhost |-> 0, Nghostmax |-> cap - Len(seeds),
                   Ntot |-> Len(seeds), pc |-> "run", error |-> "" ]
    /\ \E n \in 0 .. MaxMpiGhosts :
          mpi = [ exported |-> [ j \in 1 .. n |-> RemoteParticle(j) ],
                  particles_receive |-> <<>> ]
    /\ gst = [ last |-> "none", tghost |-> 0, created |-> gsph.sphdata,
               moves |-> 0, searched |-> FALSE, mpisearched |-> FALSE ]

\* The call wrote sphdata[Nsphmax], the memory behind the array
WroteBehindArray(S) == S.Nsph + S.Nghost > S.Nsphmax

\* How a call that computes S can end: as computed, or, when it wrote behind
\* the array, with the process killed by the memory fault
Outcomes(S) ==
    IF WroteBehindArray(S)
    THEN { S, [ S EXCEPT !.pc = "fault", !.error = "" ] }
    ELSE { S }

PeriodicGhosts_SearchGhostParticles ==
    /\ gsph.pc = "run"
    /\ ~gst.searched
    /\ \E tghost \in {0, 1} :
       \E S \in Outcomes(SearchGhosts(gsph, simbox, tghost)) :
          /\ gsph' = S
          /\ gst' = [ gst EXCEPT !.last = "search", !.tghost = tghost,
                                 !.created = S.sphdata, !.searched = TRUE ]
    /\ UNCHANGED <<simbox, mpi, restG>>

PeriodicGhosts_CopySphDataToGhosts ==
    /\ gsph.pc = "run"
    /\ gst.searched
    /\ gsph' = CopyLoop(gsph, simbox, 0)
    /\ gst' = [ gst EXCEPT !.last = "copy" ]
    /\ UNCHANGED <<simbox, mpi, restG>>

MPIGhosts_SearchGhostParticles ==
    /\ gsph.pc = "run"
    /\ gst.searched
    /\ ~gst.mpisearched
    /\ \E m \in {Alltoallv(mpi)} : \E S \in {MpiSearchGhosts(gsph, m.particles_receive)} :
          /\ mpi' = m
          /\ gsph' = S
          /\ gst' = [ gst EXCEPT !.last = "mpisearch", !.created = S.sphdata,
                                 !.mpisearched = TRUE ]
    /\ UNCHANGED <<simbox, restG>>

MPIGhosts_CopySphDataToGhosts ==
    /\ gsph.pc = "run"
    /\ gst.mpisearched
    /\ \E m \in {Alltoallv(mpi)} :
          /\ mpi' = m
          /\ gsph' = MpiStoreLoop(gsph, m.particles_receive, 0)
    /\ gst' = [ gst EXCEPT !.last = "mpicopy" ]
    /\ UNCHANGED <<simbox, restG>>

\* A drift r += v*dt with dt = 1
Drift(p) == [ p EXCEPT !.r = [ k \in Axes |-> p.r[k] + p.v[k] ] ]

\* The integration between two ghost calls moves the real particles of this
\* node
AdvanceParticles ==
    /\ gsph.pc = "run"
    /\ gst.searched
    /\ gst.moves < MaxMoves
    /\ gsph' = [ gsph EXCEPT !.sphdata =
                   [ i \in DOMAIN @ |-> IF i < gsph.Nsph THEN Drift(@[i]) ELSE @[i] ] ]
    /\ gst' = [ gst EXCEPT !.last = "advance", !.moves = @ + 1 ]
    /\ UNCHANGED <<simbox, mpi, restG>>

\* The other node moves the particles it exports and may switch them off
AdvanceRemote ==
    /\ gsph.pc = "run"
    /\ gst.mpisearched
    /\ gst.moves < MaxMoves
    /\ \E act \in BOOLEAN :
          mpi' = [ mpi EXCEPT !.exported =
                     [ j \in DOMAIN @ |-> [ Drift(@[j]) EXCEPT !.active = act ] ] ]
    /\ gst' = [ gst EXCEPT !.last = "advance", !.moves = @ + 1 ]
    /\ UNCHANGED <<gsph, simbox, restG>>

GhostNext ==
    \/ PeriodicGhosts_SearchGhostParticles
    \/ PeriodicGhosts_CopySphDataToGhosts
    \/ MPIGhosts_SearchGhostParticles
    \/ MPIGhosts_CopySphDataToGhosts
    \/ AdvanceParticles
    \/ AdvanceRemote

(***************************************************************************)
(* Claims about the ghost manager (specification SpecGhost)                *)
(***************************************************************************)
GhostKinds == Axes \X {"lhs", "rhs"} \X {"periodic", "mirror"}

\* Position and velocity a ghost of kind t = <<axis, side, kind>> has for a
\* source at src: shifted by the box size, or reflected about the face with
\* the velocity component negated
TransformR(t, src, box) ==
    [ src.r EXCEPT ![t[1]] =
        IF t[3] = "periodic"
        THEN IF t[2] = "lhs" THEN @ + box.boxsize[t[1]] ELSE @ - box.boxsize[t[1]]
        ELSE IF t[2] = "lhs" THEN 2 * box.boxmin[t[1]] - @
                             ELSE 2 * box.boxmax[t[1]] - @ ]

TransformV(t, src) ==
    [ src.v EXCEPT ![t[1]] = IF t[3] = "periodic" THEN @ ELSE -@ ]

\* The face t has the kind t[3] in the box
FaceHasKind(t, box) ==
    IF t[2] = "lhs" THEN box.boundary_lhs[t[1]] = t[3]
                    ELSE box.boundary_rhs[t[1]] = t[3]

\* The slots that hold ghosts created by the periodic search (the cell
\* behind the array included)
PeriodicSlots == gsph.Nsph .. (Min2(gsph.Nsph + gsph.Nghost, gsph.Nsphmax + 1) - 1)

\* C7: after SearchGhostParticles every ghost names a source of lower index
\* in iorig and a face of the box, of the face's kind, in itype; it has the
\* source's fields except r[k], v[k], active, itype, iorig, with r[k] shifted
\* by the box size and v[k] kept for a periodic face, and r[k] reflected
\* about the face and v[k] negated for a mirror face.
C7_GhostIsTransformedCopy ==
    gst.last = "search" =>
        \A g \in PeriodicSlots :
            /\ gsph.sphdata[g].iorig \in 0 .. (g - 1)
            /\ \E t \in GhostKinds :
                  /\ FaceHasKind(t, simbox)
                  /\ gsph.sphdata[g].itype = GhostType(t[1], t[2], t[3])
                  /\ gsph.sphdata[g] =
                        [ gsph.sphdata[gsph.sphdata[g].iorig] EXCEPT
                            !.r = TransformR(t, gsph.sphdata[gsph.sphdata[g].iorig],
                                             simbox),
                            !.v = TransformV(t, gsph.sphdata[gsph.sphdata[g].iorig]),
                            !.active = FALSE,
                            !.itype = gsph.sphdata[g].itype,
                            !.iorig = gsph.sphdata[g].iorig ]

\* A search that returned with a periodic ghost, a mirror ghost of a moving
\* particle and a ghost of a ghost
C7_Witness ==
    /\ gst.last = "search" /\ gsph.pc = "run"
    /\ \E g \in PeriodicSlots : gsph.sphdata[g].itype = "x_lhs_periodic"
    /\ \E g \in PeriodicSlots :
          /\ gsph.sphdata[g].itype = "y_lhs_mirror"
          /\ gsph.sphdata[g].iorig >= gsph.Nsph
          /\ gsph.sphdata[g].v[1] # 0

\* The slots CopySphDataToGhosts refreshes
RefreshedSlots == gsph.Nsph .. (gsph.Nsph + gsph.NPeriodicGhost - 1)

\* C8: after CopySphDataToGhosts every ghost has the position and velocity
\* that the transform of its stored kind gives for its origin's current
\* state, for every periodic and every mirror kind; unless a particle moved
\* since the search, every ghost is where the search put it.
C8_RefreshReproducesCreation ==
    gst.last = "copy" =>
        \A g \in RefreshedSlots :
            /\ \E t \in GhostKinds :
                  /\ gsph.sphdata[g].itype = GhostType(t[1], t[2], t[3])
                  /\ gsph.sphdata[g].r =
                        TransformR(t, gsph.sphdata[gsph.sphdata[g].iorig], simbox)
                  /\ gsph.sphdata[g].v =
                        TransformV(t, gsph.sphdata[gsph.sphdata[g].iorig])
            /\ gst.moves = 0 => gsph.sphdata[g] = gst.created[g]

\* The case C8 fails on: a refreshed mirror ghost lies on its origin
C8_MirrorGhostOnOrigin ==
    /\ gst.last = "copy" /\ gst.moves = 0
    /\ \E g \in RefreshedSlots :
          /\ gsph.sphdata[g].itype = "x_lhs_mirror"
          /\ gsph.sphdata[g].r = gsph.sphdata[gsph.sphdata[g].iorig].r
          /\ gsph.sphdata[g].r # gst.created[g].r

\* The number of ghosts the search creates in an array with room for all
GhostsRequired ==
    SearchGhosts([ gsph EXCEPT
                     !.sphdata = [ i \in 0 .. (27 * gsph.Nsph) |->
                                     IF i < gsph.Nsph THEN @[i] ELSE NoParticle ],
                     !.Nsphmax = 27 * gsph.Nsph, !.pc = "run", !.error = "" ],
                 simbox, gst.tghost).Nghost

C9_FaultBeforeRaise ==
    /\ gst.last = "search"
    /\ gsph.pc = "fault"
    /\ GhostsRequired > gsph.Nsphmax - gsph.Nsph
    /\ gsph.sphdata[gsph.Nsphmax].itype # "none"

\* The slots that hold ghosts, periodic, mirror or MPI
GhostSlots == gsph.Nsph .. (gsph.Ntot - 1)

\* C10: after a search that returned, whatever CopySphDataToGhosts calls
\* and particle moves follow, every ghost has the itype and iorig it was
\* created with and active = false.
C10_GhostTagsImmutable ==
    (gsph.pc = "run" /\ gst.searched) =>
        \A g \in GhostSlots :
            /\ gsph.sphdata[g].itype = gst.created[g].itype
            /\ gsph.sphdata[g].iorig = gst.created[g].iorig
            /\ gsph.sphdata[g].active = FALSE

\* A periodic ghost, a mirror ghost and an MPI ghost whose exported particle
\* is active, refreshed after their origins moved
C10_Witness ==
    /\ gsph.pc = "run" /\ gst.last = "mpicopy" /\ gst.moves > 0
    /\ gsph.Ntot > gsph.Nsph + gsph.NPeriodicGhost
    /\ mpi.particles_receive[1].active
    /\ gsph.sphdata[gsph.Nsph + gsph.NPeriodicGhost].r # gst.created[gsph.Nsph + gsph.NPeriodicGhost].r
    /\ \E g \in RefreshedSlots : gsph.sphdata[g].itype = "x_lhs_periodic"
    /\ \E g \in RefreshedSlots : gsph.sphdata[g].itype = "y_lhs_mirror"

(***************************************************************************)
(* PART 4.  Periodic wrapping (PeriodicGhosts::CheckBoundaries), ndim = 3  *)
(* The call is modelled on gsph (sphdata, sphintdata, Nsph), simbox and    *)
(* gst (number of calls made, the arrays as they were before the last one) *)
(***************************************************************************)
MaxWraps == 2           \* successive calls of CheckBoundaries

\* Lines 66-70 (and 77-81, 88-92): the test against boxmin
WrapLhs(pr, box, k) ==
    IF pr.r[k] < box.boxmin[k] /\ box.boundary_lhs[k] = "periodic"
    THEN [ r |-> [ pr.r EXCEPT ![k] = @ + box.boxsize[k] ],
           r0 |-> [ pr.r0 EXCEPT ![k] = @ + box.boxsize[k] ] ]
    ELSE pr

\* Lines 71-75 (and 82-86, 93-97): the test against boxmax, made on the r
\* the first test has left
WrapRhs(pr, box, k) ==
    IF pr.r[k] > box.boxmax[k] /\ box.boundary_rhs[k] = "periodic"
    THEN [ r |-> [ pr.r EXCEPT ![k] = @ - box.boxsize[k] ],
           r0 |-> [ pr.r0 EXCEPT ![k] = @ - box.boxsize[k] ] ]
    ELSE pr

\* The six tests of the loop body, x then y then z
WrapParticle(pr, box) ==
    WrapRhs(WrapLhs(WrapRhs(WrapLhs(WrapRhs(WrapLhs(pr, box, 0), box, 0),
                                    box, 1), box, 1), box, 2), box, 2)

\* The loop over the real particles i = 0 .. Nsph-1
CheckBoundaries(S, box) ==
    LET wrapped == [ i \in 0 .. (S.Nsph - 1) |->
                       WrapParticle([ r |-> S.sphdata[i].r,
                                      r0 |-> S.sphintdata[i].r0 ], box) ]
    IN  [ S EXCEPT !.sphdata = [ i \in DOMAIN S.sphdata |->
                                   [ S.sphdata[i] EXCEPT !.r = wrapped[i].r ] ],
                   !.sphintdata = [ i \in DOMAIN S.sphintdata |->
                                      [ r0 |-> wrapped[i].r0 ] ] ]

\* Positions r of the real particles before the first call, with the offset
\* r - r0 travelled since the start of the step
WrapSeeds ==
    << [ r |-> Vec(4, 5, 6),     d |-> Vec(1, 0, -1) ],
       [ r |-> Vec(0, 10, 12),   d |-> Vec(0, 1, 0) ],
       [ r |-> Vec(-1, 11, 13),  d |-> Vec(-2, 2, 2) ],
       [ r |-> Vec(9, -3, 6),    d |-> Vec(2, -4, 0) ],
       [ r |-> Vec(-9, 5, 25),   d |-> Vec(-10, 0, 14) ],
       [ r |-> Vec(17, -11, -1), d |-> Vec(10, -12, -2) ] >>

WrapSeedSeqs ==
    UNION { { q \in [1 .. n -> 1 .. Len(WrapSeeds)] :
                \A a \in 1 .. (n - 1) : q[a] <= q[a + 1] } : n \in 1 .. MaxNsph }

\* The box and the particle arrays a call of CheckBoundaries finds
WrapData ==
    /\ \E kinds \in BoxKinds :
          simbox = [ boundary_lhs |-> [ k \in Axes |-> kinds[1][k + 1] ],
                     boundary_rhs |-> [ k \in Axes |-> kinds[2][k + 1] ],
                     boxmin |-> Vec(0, 0, 0), boxmax |-> Vec(8, 10, 12),
                     boxsize |-> Vec(8, 10, 12) ]
    /\ \E seeds \in WrapSeedSeqs :
          gsph = [ sphdata |-> [ i \in 0 .. (Len(seeds) - 1) |->
                       [ RealParticle([ r |-> WrapSeeds[seeds[i + 1]].r,
                                        v |-> Vec(0, 0, 0) ])
                         EXCEPT !.r = WrapSeeds[seeds[i + 1]].r ] ],
                   sphintdata |-> [ i \in 0 .. (Len(seeds) - 1) |->
                       [ r0 |-> [ k \in Axes |->
                                    WrapSeeds[seeds[i + 1]].r[k]
                                    - WrapSeeds[seeds[i + 1]].d[k] ] ] ],
                   Nsph |-> Len(seeds), pc |-> "run" ]
    /\ mpi = <<>>

WrapInit ==
    /\ WrapData
    /\ gst = [ last |-> "none", calls |-> 0 ]

\* One call of PeriodicGhosts::CheckBoundaries
PeriodicGhosts_CheckBoundaries ==
    /\ gsph.pc = "run"
    /\ gst.calls < MaxWraps
    /\ gsph' = CheckBoundaries(gsph, simbox)
    /\ gst' = [ last |-> "wrap", calls |-> gst.calls + 1,
                before |-> [ sphdata |-> gsph.sphdata,
                             sphintdata |-> gsph.sphintdata ] ]
    /\ UNCHANGED <<simbox, mpi, restG>>

WrapNext ==
    PeriodicGhosts_CheckBoundaries

(***************************************************************************)
(* Claims about the wrap (specification SpecWrap)                          *)
(***************************************************************************)
\* The axes the claim speaks of: neither boundary is open
ClosedAxes == { k \in Axes : /\ simbox.boundary_lhs[k] # "open"
                             /\ simbox.boundary_rhs[k] # "open" }

\* C11: after CheckBoundaries every real particle lies inside the box,
\* boxmin[k] <= r[k] <= boxmax[k], on every axis whose boundaries are not
\* open, whatever its position before the call.
C11_InsideBoxAfterWrap ==
    gst.calls >= 1 =>
        \A i \in 0 .. (gsph.Nsph - 1) : \A k \in ClosedAxes :
            /\ simbox.boxmin[k] <= gsph.sphdata[i].r[k]
            /\ gsph.sphdata[i].r[k] <= simbox.boxmax[k]

\* The case C11 fails on: a particle more than one box length beyond a
\* periodic face was shifted by one box length and is still outside
C11_ShiftedButOutside ==
    /\ gst.calls = 1
    /\ \E i \in 0 .. (gsph.Nsph - 1) : \E k \in Axes :
          /\ simbox.boundary_lhs[k] = "periodic"
          /\ simbox.boundary_rhs[k] = "periodic"
          /\ gsph.sphdata[i].r[k] # gst.before.sphdata[i].r[k]
          /\ gsph.sphdata[i].r[k] > simbox.boxmax[k]

\* C12: a second call of CheckBoundaries right after the first leaves r and
\* r0 of every particle as the first call left them.
C12_WrapIdempotent ==
    gst.calls >= 2 =>
        /\ gsph.sphdata = gst.before.sphdata
        /\ gsph.sphintdata = gst.before.sphintdata

\* The case C12 fails on: the second call moved a particle again
C12_SecondCallMoves ==
    /\ gst.calls = 2
    /\ \E i \in 0 .. (gsph.Nsph - 1) : \E k \in Axes :
          /\ gsph.sphdata[i].r[k] # gst.before.sphdata[i].r[k]
          /\ gsph.sphintdata[i].r0[k] # gst.before.sphintdata[i].r0[k]


(***************************************************************************)
(* PART 5.  The league calendar (MpiControl::CreateLeagueCalendar)         *)
(* Every rank of MPI_COMM_WORLD runs the routine: procs[r] is the state of *)
(* rank r (pc, my_matches, the calendar and send counter of rank 0),       *)
(* net.league[r] the tag_league messages sent to rank r and not received.  *)
(* The validation block of lines 231-268 is compiled only with VERIFY_ALL, *)
(* which the Makefile does not define; it is not part of the model.        *)
(***************************************************************************)
MaxNmpi == 6            \* largest number of MPI processes

Ranks == 0 .. (world.Nmpi - 1)

\* Line 188: the test "! Nmpi%2", in which ! applies to Nmpi alone
LeagueRaises(Nmpi) == ((IF Nmpi = 0 THEN 1 ELSE 0) % 2) # 0

\* A pairs table filled with the modulus Nmpi instead of Nmpi - 1
PairsTurn_WrongModulus(Nmpi, iturn) ==
    [ i \in 0 .. (Nmpi - 1) |-> IF i = 0 THEN Nmpi - 1 ELSE (i + iturn) % Nmpi ]

\* Lines 213-220: pairs_turn of one turn
PairsTurn(Nmpi, iturn) ==
    [ i \in 0 .. (Nmpi - 1) |->
        IF i = 0 THEN Nmpi - 1 ELSE (i + iturn) % (Nmpi - 1) ]

\* Lines 222-228: the matches of one turn written into the calendar, in the
\* order istep = 0, 1, ..
RECURSIVE FillTurn(_, _, _, _)
FillTurn(calendar, Nmpi, iturn, istep) ==
    IF istep >= Nmpi \div 2 THEN calendar
    ELSE LET pairs_turn == PairsTurn(Nmpi, iturn)
             first_team == pairs_turn[istep]
             second_team == pairs_turn[(Nmpi - 1) - istep]
             one == [ calendar EXCEPT ![first_team][iturn] = second_team ]
         IN  FillTurn([ one EXCEPT ![second_team][iturn] = first_team ],
                      Nmpi, iturn, istep + 1)

\* Lines 203-229: the calendar of rank 0, calendar[team][turn], from the
\* zero-filled vectors
RECURSIVE FillCalendar(_, _, _)
FillCalendar(calendar, Nmpi, iturn) ==
    IF iturn >= Nmpi - 1 THEN calendar
    ELSE FillCalendar(FillTurn(calendar, Nmpi, iturn, 0), Nmpi, iturn + 1)

Calendar(Nmpi) ==
    FillCalendar([ iteam \in 0 .. (Nmpi - 1) |->
                     [ iturn \in 0 .. (Nmpi - 2) |-> 0 ] ], Nmpi, 0)

LeagueInit ==
    /\ \E n \in 1 .. MaxNmpi : world = [ Nmpi |-> n ]
    /\ procs = [ r \in Ranks |-> [ pc |-> "start", error |-> "",
                                   my_matches |-> <<>> ] ]
    /\ net = [ league |-> [ r \in Ranks |-> <<>> ] ]

\* Rank 0 up to its first MPI_Send: the check, the calendar, its own row
CreateLeagueCalendar_Root ==
    /\ world.Nmpi > 0
    /\ procs[0].pc = "start"
    /\ procs' = [ procs EXCEPT ![0] =
          IF LeagueRaises(world.Nmpi)
          THEN Raise(@, "The number of MPI processes must be even!")
          ELSE [ @ EXCEPT !.my_matches = Calendar(world.Nmpi)[0],
                          !.pc = IF world.Nmpi > 1 THEN "send" ELSE "done" ]
                 @@ [ calendar |-> Calendar(world.Nmpi), inode |-> 1 ] ]
    /\ UNCHANGED <<net, world, nbody, restL>>

\* Line 279: one MPI_Send of the loop over inode
LeagueSend ==
    /\ world.Nmpi > 0
    /\ procs[0].pc = "send"
    /\ \E inode \in {procs[0].inode} :
          /\ net' = [ net EXCEPT !.league[inode] =
                                    Append(@, procs[0].calendar[inode]) ]
          /\ procs' = [ procs EXCEPT ![0].inode = inode + 1,
                                     ![0].pc = IF inode + 1 < world.Nmpi
                                               THEN "send" ELSE "done" ]
    /\ UNCHANGED <<world, nbody, restL>>

\* A rank other than 0 up to its MPI_Recv: the check and the resize
CreateLeagueCalendar_Peer(r) ==
    /\ procs[r].pc = "start"
    /\ procs' = [ procs EXCEPT ![r] =
          IF LeagueRaises(world.Nmpi)
          THEN Raise(@, "The number of MPI processes must be even!")
          ELSE [ @ EXCEPT !.my_matches = [ iturn \in 0 .. (world.Nmpi - 2) |-> 0 ],
                          !.pc = "recv" ] ]
    /\ UNCHANGED <<net, world, nbody, restL>>

\* Line 286: the MPI_Recv of a rank other than 0 and the return
LeagueRecv(r) ==
    /\ procs[r].pc = "recv"
    /\ net.league[r] # <<>>
    /\ procs' = [ procs EXCEPT ![r].my_matches = Head(net.league[r]),
                               ![r].pc = "done" ]
    /\ net' = [ net EXCEPT !.league[r] = Tail(@) ]
    /\ UNCHANGED <<world, nbody, restL>>

LeaguePeerStart == \E r \in Ranks \ {0} : CreateLeagueCalendar_Peer(r)

LeaguePeerRecv == \E r \in Ranks \ {0} : LeagueRecv(r)

LeagueNext ==
    \/ CreateLeagueCalendar_Root
    \/ LeagueSend
    \/ LeaguePeerStart
    \/ LeaguePeerRecv

(***************************************************************************)
(* Claims about the calendar (specification SpecLeague)                    *)
(***************************************************************************)
LeagueDone == \A r \in Ranks : procs[r].pc = "done"

Turns == 0 .. (world.Nmpi - 2)

\* C13: for even Nmpi >= 2 the calendar held in my_matches once every rank
\* has returned is a round-robin tournament: in every turn no rank meets
\* itself and the opponent of a rank's opponent is that rank, and over the
\* Nmpi-1 turns every rank meets every other rank exactly once.
C13_RoundRobin ==
    (LeagueDone /\ world.Nmpi >= 2 /\ world.Nmpi % 2 = 0) =>
        /\ \A a \in Ranks : \A t \in Turns :
              /\ procs[a].my_matches[t] \in Ranks \ {a}
              /\ procs[procs[a].my_matches[t]].my_matches[t] = a
        /\ \A a \in Ranks : \A b \in Ranks \ {a} :
              Cardinality({ t \in Turns : procs[a].my_matches[t] = b }) = 1

C13_Witness ==
    /\ LeagueDone
    /\ world.Nmpi = 6
    /\ procs[5].my_matches[0] = 0
    /\ procs[1].my_matches[0] = 4

\* C17: with an odd number of MPI processes every rank raises "The number
\* of MPI processes must be even!" before it builds or receives a calendar.
C17_OddIsRejected ==
    world.Nmpi % 2 = 1 =>
        \A r \in Ranks :
            \/ procs[r].pc = "start"
            \/ /\ procs[r].pc = "error"
               /\ procs[r].error = "The number of MPI processes must be even!"

\* The case C17 fails on: three processes, every rank has returned with a
\* calendar and no error was raised
C17_OddCalendarBuilt ==
    /\ world.Nmpi = 3
    /\ LeagueDone
    /\ \A r \in Ranks : procs[r].error = ""


(***************************************************************************)
(* PART 6.  Load balancing (MpiControl::LoadBalancing), ndim = 1           *)
(* procs[r] is rank r inside one call: its Sph arrays, its copy of the     *)
(* mpinode array, its locals, and (rank 0) the MPI tree.  net holds the    *)
(* point-to-point messages per (source, destination) and the broadcast.    *)
(* world.sync tells whether MPI_Send returns only once the message has     *)
(* been received (synchronous mode) or at once (buffered mode).            *)
(***************************************************************************)
MaxBalNmpi == 4         \* largest number of ranks in the load-balancing model
MaxBalSlots == 8        \* largest capacity Nsphmax of a rank's particle arrays

\* ndim of the MpiControl instance modelled
ndimMpi == 1

\* sum of a sequence of FLOATs, accumulated from the left like the loops
RECURSIVE FSum(_, _)
FSum(s, n) == IF n = 0 THEN FZero ELSE FAdd(FSum(s, n - 1), s[n])

\* ParticleInBox of a 1-d position and a domain box
ParticleInBox(r, box) == FLe(box.boxmin, r) /\ FLt(r, box.boxmax)

\* BoxesOverlap of two 1-d boxes
BoxesOverlap(a, b) == FLe(a.boxmin, b.boxmax) /\ FLe(b.boxmin, a.boxmax)

\* Lines 568-577: the first domain in rank order holding the particle,
\* or -1
FirstDomain(r, mpinode, Nmpi) ==
    LET holders == { inode \in 0 .. (Nmpi - 1) :
                       ParticleInBox(r, mpinode[inode].domain) }
    IN  IF holders = {} THEN -1
        ELSE CHOOSE inode \in holders : \A other \in holders : inode <= other

\* 1.0/(FLOAT) sphintdata[i].nstep
WorkOf(S, i) == FRat(1, S.sphintdata[i].nstep)

\* Lines 551-578: the work of this rank, its centre and the work it would
\* send, written into this rank's mpinode array.  The last loop reads
\* worksent[k] with k left at ndim by the loop of line 563.
LocalWork(S, mpinode, rank, Nmpi) ==
    LET n == Len(S.sphdata)
        sent(inode) ==
            IF inode = rank THEN FZero
            ELSE FSum([ i \in 1 .. n |->
                          IF FirstDomain(S.sphdata[i].r, mpinode, Nmpi) = inode
                          THEN WorkOf(S, i) ELSE FZero ], n)
    IN  CHOOSE new \in
          { [ inode \in 0 .. (Nmpi - 1) |->
                [ (IF inode = rank
                   THEN [ mpinode[rank] EXCEPT
                            !.worktot = worktot,
                            !.rwork = FDiv(rsum, worktot),
                            !.worksent = worksent,
                            !.workreceived = [ k \in 0 .. (Nmpi - 1) |-> FZero ] ]
                   ELSE mpinode[inode])
                  EXCEPT !.workreceived[rank] = worksent[ndimMpi] ] ] :
              worktot \in { FSum([ i \in 1 .. n |-> WorkOf(S, i) ], n) },
              rsum \in { FSum([ i \in 1 .. n |->
                                 FDiv(S.sphdata[i].r, FInt(S.sphintdata[i].nstep)) ], n) },
              worksent \in { [ inode \in 0 .. (Nmpi - 1) |-> sent(inode) ] } } : TRUE

\* Lines 741-743: the work buffer a rank other than 0 fills
PackWork(node, Nmpi) ==
    [ j \in 0 .. (ndimMpi + Nmpi) |->
        IF j = 0 THEN node.worktot
        ELSE IF j <= ndimMpi THEN node.rwork
        ELSE node.worksent[j - ndimMpi - 1] ]

\* Line 744 sends ndim+1 elements of the buffer
WorkMessage(workbuffer) == [ j \in 0 .. ndimMpi |-> workbuffer[j] ]

\* Lines 601-608: rank 0 receives the message into its own work buffer
\* (only the elements sent are overwritten) and unpacks the whole buffer
UnpackWork(mpinode, workbuffer, msg, inode, Nmpi) ==
    LET wb == [ j \in DOMAIN workbuffer |->
                  IF j \in DOMAIN msg THEN msg[j] ELSE workbuffer[j] ]
        one == [ mpinode EXCEPT
                   ![inode].worktot = wb[0],
                   ![inode].rwork = wb[1],
                   ![inode].worksent =
                       [ k \in 0 .. (Nmpi - 1) |-> wb[ndimMpi + k + 1] ] ]
    IN  [ mpinode |-> [ k \in 0 .. (Nmpi - 1) |->
                          [ one[k] EXCEPT !.workreceived[inode] =
                                              wb[ndimMpi + k + 1] ] ],
          workbuffer |-> wb ]

\* The MPI tree of rank 0 (MpiTree.h): cell 0 is the root, the first child
\* of cell c is c+1, the second tree[c].c2 (0 for a leaf); a leaf holds its
\* rank in c2g.  Cells in depth-first order, leaves on level ltot.
TreeShape(Nmpi) ==
    IF Nmpi = 2
    THEN << <<2, 0, 0>>, <<0, 0, 1>>, <<0, 1, 1>> >>
    ELSE << <<4, 0, 0>>, <<3, 0, 1>>, <<0, 0, 2>>, <<0, 1, 2>>,
            <<6, 2, 1>>, <<0, 2, 2>>, <<0, 3, 2>> >>

\* Ranks below a cell, first and last
TreeSpan(Nmpi, c) ==
    IF Nmpi = 2 THEN << <<0, 1>>, <<0, 0>>, <<1, 1>> >>[c + 1]
    ELSE << <<0, 3>>, <<0, 1>>, <<0, 0>>, <<1, 1>>,
            <<2, 3>>, <<2, 2>>, <<3, 3>> >>[c + 1]

\* The tree as the last decomposition left it: boxes of the cells from the
\* domains, work fields from an earlier walk
MpiTree(Nmpi, domains, stale) ==
    [ Ncell |-> 2 * Nmpi - 1,
      ltot |-> IF Nmpi = 2 THEN 1 ELSE 2,
      tree |-> [ c \in 0 .. (2 * Nmpi - 2) |->
                   [ c2 |-> TreeShape(Nmpi)[c + 1][1],
                     c2g |-> TreeShape(Nmpi)[c + 1][2],
                     clevel |-> TreeShape(Nmpi)[c + 1][3],
                     bbmin |-> domains[TreeSpan(Nmpi, c)[1]].boxmin,
                     bbmax |-> domains[TreeSpan(Nmpi, c)[2]].boxmax,
                     worktot |-> FZero, rwork |-> stale ] ] ]

\* Lines 624-638: one cell of the upward walk
UpwardCell(tree, mpinode, c) ==
    IF tree[c].c2 = 0
    THEN [ tree EXCEPT ![c].worktot = mpinode[tree[c].c2g].worktot,
                       ![c].rwork = mpinode[tree[c].c2g].rwork ]
    ELSE LET c2 == tree[c].c2
             worktot == FAdd(tree[c + 1].worktot, tree[c2].worktot)
         IN  [ tree EXCEPT ![c].worktot = worktot,
                           ![c].rwork =
                               FDiv(FAdd(FMul(worktot, tree[c].rwork),
                                         FMul(tree[c2].worktot, tree[c2].rwork)),
                                    worktot) ]

\* Lines 621-644: the walk from cell Ncell-1 up to cell 0
RECURSIVE UpwardWalk(_, _, _)
UpwardWalk(tree, mpinode, c) ==
    IF c < 0 THEN tree
    ELSE CHOOSE up \in { UpwardWalk(next, mpinode, c - 1) :
                           next \in {UpwardCell(tree, mpinode, c)} } : TRUE

\* A wrap that stays on level 0
NextBalanceLevel_NoWrap(balance_level, ltot) ==
    IF balance_level - 1 < 0 THEN 0 ELSE balance_level - 1

\* Lines 650-652: the level balanced in this call
NextBalanceLevel(balance_level, ltot) ==
    IF balance_level - 1 < 0 THEN ltot - 1 ELSE balance_level - 1

\* Lines 676-684: the new position of the plane between the children c+1
\* and c2
NewBoundary(tree, mpinode, c) ==
    LET c2 == tree[c].c2
        i1 == tree[c + 1].c2g
        i2 == tree[c2].c2g
        dwdx1 == FDiv(FHalf(tree[c + 1].worktot),
                      FSub(tree[c + 1].bbmax, tree[c + 1].rwork))
        dwdx2 == FDiv(FHalf(tree[c2].worktot),
                      FSub(tree[c2].rwork, tree[c2].bbmin))
        dxnew == FDiv(FAdd(mpinode[i1].worksent[i2], mpinode[i2].worksent[i1]),
                      FAdd(dwdx1, dwdx2))
    IN  FAdd(tree[c + 1].bbmax, dxnew)

\* Lines 659-713: one cell of the downward walk, on the tree and on the
\* domain boxes of rank 0's mpinode array
DownwardCell(T, c, balance_level) ==
    LET tree == T.tree
        c2 == tree[c].c2
    IN  IF tree[c].clevel = balance_level /\ c2 # 0
        THEN \* on the balanced level
             LET rnew == NewBoundary(tree, T.mpinode, c)
             IN  [ T EXCEPT !.tree[c + 1].bbmax = rnew, !.tree[c2].bbmin = rnew ]
        ELSE IF c2 = 0
        THEN \* leaf: the box of the rank
             [ T EXCEPT !.mpinode[tree[c].c2g].domain =
                            [ boxmin |-> tree[c].bbmin, boxmax |-> tree[c].bbmax ] ]
        ELSE [ T EXCEPT !.tree[c + 1].bbmin = tree[c].bbmin,
                        !.tree[c2].bbmax = tree[c].bbmax ]

RECURSIVE DownwardWalk(_, _, _, _)
DownwardWalk(T, c, Ncell, balance_level) ==
    IF c >= Ncell THEN T
    ELSE CHOOSE down \in { DownwardWalk(next, c + 1, Ncell, balance_level) :
                             next \in {DownwardCell(T, c, balance_level)} } : TRUE

\* Bounding box of the particles a rank holds (mpinode[rank].rbox)
RBox(S) ==
    LET rs == { S.sphdata[i].r : i \in 1 .. Len(S.sphdata) }
    IN  [ boxmin |-> CHOOSE a \in rs : \A b \in rs : FLe(a, b),
          boxmax |-> CHOOSE a \in rs : \A b \in rs : FLe(b, a) ]

\* Lines 766-773: the ranks this rank may have to send particles to
PotentialNodes(S, mpinode, rank, Nmpi) ==
    CHOOSE potential_nodes \in
        { { inode \in 0 .. (Nmpi - 1) :
              inode # rank /\ BoxesOverlap(mpinode[inode].domain, rbox) } :
            rbox \in {RBox(S)} } : TRUE

\* BruteForceSearch::FindParticlesToTransfer: the indices of the particles
\* that lie in the domain of each potential node, in index order
ParticlesToTransfer(S, mpinode, rank, Nmpi) ==
    LET dest(i, pot) ==
            LET holders == { inode \in pot :
                               ParticleInBox(S.sphdata[i].r, mpinode[inode].domain) }
            IN  IF holders = {} THEN -1
                ELSE CHOOSE a \in holders : \A b \in holders : a <= b
    IN  CHOOSE lists \in
          { [ inode \in 0 .. (Nmpi - 1) |->
                SetToAscSeq({ i \in 1 .. Len(S.sphdata) : dest(i, pot) = inode }) ] :
              pot \in {PotentialNodes(S, mpinode, rank, Nmpi)} } : TRUE

\* Sph::DeleteParticles: the arrays without the listed indices
DeleteParticles(S, dead) ==
    LET keep == SetToAscSeq((1 .. Len(S.sphdata)) \ dead)
    IN  [ S EXCEPT !.sphdata = [ j \in 1 .. Len(keep) |-> S.sphdata[keep[j]] ],
                   !.sphintdata = [ j \in 1 .. Len(keep) |-> S.sphintdata[keep[j]] ] ]

\* A receiver that stores the received particles twice
StoreReceived_Twice(S, recvbuffer, recvbufferint) ==
    [ S EXCEPT !.sphdata = @ \o recvbuffer \o recvbuffer,
               !.sphintdata = @ \o recvbufferint \o recvbufferint ]

\* Lines 842-850: the received particles appended behind the local ones
StoreReceived(S, recvbuffer, recvbufferint) ==
    [ S EXCEPT !.sphdata = @ \o recvbuffer,
               !.sphintdata = @ \o recvbufferint ]

\* A tournament in which every rank sends first
SendsFirst_Always(rank, inode) == TRUE

\* Lines 811-816: who sends first in a match
SendsFirst(rank, inode) == rank < inode

\* Lines 791-799 and 811-816: the locals at the start of turn iturn
BeginTurn(p, rank, iturn) ==
    [ p EXCEPT !.iturn = iturn, !.i = 0, !.part = 1,
               !.send_turn = SendsFirst(rank, p.my_matches[iturn]),
               !.recvbuffer = <<>>, !.recvbufferint = <<>> ]

\* Lines 842-862: the end of a turn, and after the last turn the removal of
\* the exported particles and the return
EndTurn(p, rank, Nmpi) ==
    LET q == [ p EXCEPT !.sph = StoreReceived(@, p.recvbuffer, p.recvbufferint) ]
    IN  IF p.iturn + 1 < Nmpi - 1
        THEN BeginTurn(q, rank, p.iturn + 1)
        ELSE [ q EXCEPT !.sph = DeleteParticles(@, UNION { { p.to_transfer[inode][j] :
                                      j \in 1 .. Len(p.to_transfer[inode]) } :
                                      inode \in 0 .. (Nmpi - 1) }),
                        !.pc = "done" ]

\* Lines 819-840: the end of one pass of the loop "for (i = 0; i < 2; i++)"
EndPass(p, rank, Nmpi, send_turn) ==
    IF p.i + 1 < 2
    THEN [ p EXCEPT !.i = p.i + 1, !.part = 1, !.send_turn = send_turn ]
    ELSE EndTurn(p, rank, Nmpi)

\* MPI_Send: the message is queued for the destination; in synchronous
\* mode the sender is held until it has been received
Post(src, dst, msg) ==
    net' = [ net EXCEPT !.chan[src][dst] = Append(@, msg) ]

Held(sync, dst) == IF sync THEN dst ELSE -1

\* A rank has reached barrier b (1 or 2) of the call
AtBarrier(r, b) ==
    LET pc == procs[r].pc
        barrier == IF b = 1 THEN "barrier1" ELSE "barrier2"
        later == IF b = 1 THEN {"bcast", "barrier2", "turn", "done"}
                 ELSE {"turn", "done"}
    IN  \/ pc \in later
        \/ pc = barrier /\ procs[r].sending = -1

\* Domains, particles (position, nstep) of every rank, and capacities the
\* call starts from
BalDomains(Nmpi) ==
    IF Nmpi = 2
    THEN [ inode \in 0 .. 1 |-> [ boxmin |-> FInt(8 * inode),
                                   boxmax |-> FInt(8 * inode + 8) ] ]
    ELSE [ inode \in 0 .. (Nmpi - 1) |-> [ boxmin |-> FInt(4 * inode),
                                             boxmax |-> FInt(4 * inode + 4) ] ]

BalConfigs(Nmpi) ==
    IF Nmpi = 1 THEN { << << <<2, 1, 1>> >> >> }
    ELSE IF Nmpi = 2
    THEN { << << <<2, 1, 1>> >>, << <<12, 1, 1>> >> >>,
           << << <<2, 1, 1>>, <<9, 1, 1>> >>, << <<91, 10, 1>> >> >>,
           << << <<2, 1, 1>>, <<4, 1, 2>>, <<6, 1, 1>> >>,
              << <<7, 1, 1>>, <<12, 1, 1>> >> >>,
           << << <<2, 1, 2>>, <<9, 1, 1>>, <<11, 1, 1>> >>,
              << <<3, 1, 1>>, <<12, 1, 2>> >> >>,
           << << <<1, 1, 4>>, <<15, 1, 1>> >>, << <<10, 1, 1>> >> >> }
    ELSE { << << <<1, 1, 1>> >>, << <<5, 1, 1>> >>, << <<9, 1, 1>> >>,
              << <<13, 1, 1>> >> >>,
           << << <<1, 1, 1>>, <<5, 1, 1>> >>, << <<6, 1, 2>>, <<9, 1, 1>> >>,
              << <<10, 1, 1>>, <<2, 1, 1>> >>, << <<14, 1, 1>>, <<10, 1, 2>> >> >> }

BalCaps == {3, MaxBalSlots}

\* What the uninitialised work buffer of rank 0 can hold
Uninitialised == {FZero, FInt(2)}

\* rwork left in the tree cells by an earlier walk
StaleRwork == {FZero, FInt(8)}

BalSph(list, rank, cap) ==
    [ sphdata |-> [ i \in 1 .. Len(list) |->
                      [ id |-> 10 * rank + i, r |-> FRat(list[i][1], list[i][2]) ] ],
      sphintdata |-> [ i \in 1 .. Len(list) |->
                         [ id |-> 10 * rank + i, nstep |-> list[i][3] ] ],
      Nsphmax |-> cap ]

BalanceInit ==
    /\ \E n \in {1, 2, 4} \cap (1 .. MaxBalNmpi), sync \in BOOLEAN :
          world = [ Nmpi |-> n, sync |-> sync ]
    /\ \E config \in BalConfigs(world.Nmpi), cap \in BalCaps,
          junk \in Uninitialised, stale \in StaleRwork :
          procs = [ r \in Ranks |->
            [ pc |-> "start", error |-> "", sending |-> -1,
              sph |-> BalSph(config[r + 1], r, cap),
              mpinode |-> [ inode \in Ranks |->
                  [ worktot |-> FZero, rwork |-> FZero,
                    worksent |-> [ k \in Ranks |-> FZero ],
                    workreceived |-> [ k \in Ranks |-> FZero ],
                    domain |-> BalDomains(world.Nmpi)[inode] ] ],
              my_matches |-> Calendar(world.Nmpi)[r],
              workbuffer |-> [ j \in 0 .. (ndimMpi + world.Nmpi) |-> junk ],
              mpitree |-> IF r = 0 /\ world.Nmpi > 1
                          THEN MpiTree(world.Nmpi, BalDomains(world.Nmpi), stale)
                          ELSE <<>>,
              balance_level |-> 0, inode |-> 1,
              to_transfer |-> [ inode \in Ranks |-> <<>> ], iturn |-> 0, i |-> 0, part |-> 1,
              send_turn |-> FALSE, recvbuffer |-> <<>>, recvbufferint |-> <<>>,
              entry |-> BalSph(config[r + 1], r, cap) ] ]
    /\ net = [ chan |-> [ a \in Ranks |-> [ b \in Ranks |-> <<>> ] ],
               bcast |-> <<>> ]

\* Lines 544-578 and, for a rank other than 0, 741-744: entry, the local
\* work, and the MPI_Send of the work buffer to rank 0
LoadBalancing_Enter(r) ==
    /\ procs[r].pc = "start"
    /\ IF world.Nmpi = 1
       THEN /\ procs' = [ procs EXCEPT ![r].pc = "done" ]
            /\ UNCHANGED net
       ELSE \E mpinode \in {LocalWork(procs[r].sph, procs[r].mpinode, r, world.Nmpi)} :
            IF r = 0
            THEN /\ procs' = [ procs EXCEPT ![r].mpinode = mpinode,
                                            ![r].pc = "gather" ]
                 /\ UNCHANGED net
            ELSE \E wb \in {PackWork(mpinode[r], world.Nmpi)} :
                 /\ procs' = [ procs EXCEPT ![r].mpinode = mpinode,
                                            ![r].workbuffer = wb,
                                            ![r].sending = Held(world.sync, 0),
                                            ![r].pc = "barrier1" ]
                 /\ Post(r, 0, WorkMessage(wb))
    /\ UNCHANGED <<world, nbody, restL>>

\* A blocked MPI_Send returns: its message has been received
SendReturns(r) ==
    /\ procs[r].sending # -1
    /\ net.chan[r][procs[r].sending] = <<>>
    /\ procs' = [ procs EXCEPT ![r].sending = -1 ]
    /\ UNCHANGED <<net, world, nbody, restL>>

\* Lines 599-609: one MPI_Recv of rank 0's loop over inode
GatherRecv ==
    /\ world.Nmpi > 1
    /\ procs[0].pc = "gather"
    /\ \E inode \in {procs[0].inode} :
          /\ net.chan[inode][0] # <<>>
          /\ \E u \in {UnpackWork(procs[0].mpinode, procs[0].workbuffer,
                                  Head(net.chan[inode][0]), inode, world.Nmpi)} :
                procs' = [ procs EXCEPT ![0].mpinode = u.mpinode,
                                        ![0].workbuffer = u.workbuffer,
                                        ![0].inode = inode + 1,
                                        ![0].pc = IF inode + 1 < world.Nmpi
                                                  THEN "gather" ELSE "barrier1" ]
          /\ net' = [ net EXCEPT !.chan[inode][0] = Tail(@) ]
    /\ UNCHANGED <<world, nbody, restL>>

\* Lines 611-731: rank 0 leaves the first barrier, walks the tree up and
\* down, and broadcasts the boxes
RootBalance ==
    /\ world.Nmpi > 1
    /\ procs[0].pc = "barrier1"
    /\ \A q \in Ranks : AtBarrier(q, 1)
    /\ \E level \in {NextBalanceLevel(procs[0].balance_level, procs[0].mpitree.ltot)} :
       \E up \in {UpwardWalk(procs[0].mpitree.tree, procs[0].mpinode,
                             procs[0].mpitree.Ncell - 1)} :
       \E T \in {DownwardWalk([ tree |-> up, mpinode |-> procs[0].mpinode ], 0,
                              procs[0].mpitree.Ncell, level)} :
          /\ procs' = [ procs EXCEPT ![0].balance_level = level,
                                     ![0].mpitree.tree = T.tree,
                                     ![0].mpinode = T.mpinode,
                                     ![0].pc = "barrier2" ]
          /\ net' = [ net EXCEPT !.bcast =
                         [ inode \in Ranks |-> T.mpinode[inode].domain ] ]
    /\ UNCHANGED <<world, nbody, restL>>

\* Line 745: a rank other than 0 leaves the first barrier
WorkerBarrier(r) ==
    /\ r # 0
    /\ procs[r].pc = "barrier1"
    /\ \A q \in Ranks : AtBarrier(q, 1)
    /\ procs' = [ procs EXCEPT ![r].pc = "bcast" ]
    /\ UNCHANGED <<net, world, nbody, restL>>

\* Lines 750-758: a rank other than 0 receives the boxes and unpacks them
BcastRecv(r) ==
    /\ r # 0
    /\ procs[r].pc = "bcast"
    /\ net.bcast # <<>>
    /\ procs' = [ procs EXCEPT ![r].mpinode =
                     [ inode \in Ranks |-> [ @[inode] EXCEPT !.domain = net.bcast[inode] ] ],
                               ![r].pc = "barrier2" ]
    /\ UNCHANGED <<net, world, nbody, restL>>

\* Lines 731/759-799: a rank leaves the second barrier, lists the particles
\* to transfer and starts the first turn
BeginTournament(r) ==
    /\ procs[r].pc = "barrier2"
    /\ \A q \in Ranks : AtBarrier(q, 2)
    /\ \E particles_to_transfer \in
            {ParticlesToTransfer(procs[r].sph, procs[r].mpinode, r, world.Nmpi)} :
       \E begun \in {BeginTurn([ procs[r] EXCEPT !.pc = "turn",
                                     !.to_transfer = particles_to_transfer ], r, 0)} :
          procs' = [ procs EXCEPT ![r] = begun ]
    /\ UNCHANGED <<net, world, nbody, restL>>

\* Lines 821-822: one MPI_Send of the turn, the particles (part 1) or the
\* integration data (part 2)
TurnSend(r) ==
    /\ procs[r].pc = "turn" /\ procs[r].sending = -1
    /\ procs[r].send_turn
    /\ \E inode \in {procs[r].my_matches[procs[r].iturn]} :
       \E list \in {procs[r].to_transfer[inode]} :
          /\ Post(r, inode,
                  IF procs[r].part = 1
                  THEN [ ipart \in 1 .. Len(list) |-> procs[r].sph.sphdata[list[ipart]] ]
                  ELSE [ ipart \in 1 .. Len(list) |-> procs[r].sph.sphintdata[list[ipart]] ])
          /\ procs' = [ procs EXCEPT ![r] =
                [ (IF @.part = 1 THEN [ @ EXCEPT !.part = 2 ]
                   ELSE EndPass(@, r, world.Nmpi, FALSE))
                  EXCEPT !.sending = Held(world.sync, inode) ] ]
    /\ UNCHANGED <<world, nbody, restL>>

\* Lines 827-838: MPI_Probe, the memory test and the MPI_Recv of the
\* particles (part 1), or the MPI_Recv of the integration data (part 2)
TurnRecv(r) ==
    /\ procs[r].pc = "turn" /\ procs[r].sending = -1
    /\ ~procs[r].send_turn
    /\ \E inode \in {procs[r].my_matches[procs[r].iturn]} :
          /\ net.chan[inode][r] # <<>>
          /\ \E msg \in {Head(net.chan[inode][r])} :
             IF procs[r].part = 1 /\ Len(procs[r].sph.sphdata) + Len(msg)
                                        > procs[r].sph.Nsphmax
             THEN /\ procs' = [ procs EXCEPT ![r] =
                        Raise(@, "Not enough memory for transfering particles") ]
                  /\ UNCHANGED net
             ELSE /\ net' = [ net EXCEPT !.chan[inode][r] = Tail(@) ]
                  /\ procs' = [ procs EXCEPT ![r] =
                        IF @.part = 1
                        THEN [ @ EXCEPT !.recvbuffer = msg, !.part = 2 ]
                        ELSE EndPass([ @ EXCEPT !.recvbufferint = msg ], r,
                                     world.Nmpi, TRUE) ]
    /\ UNCHANGED <<world, nbody, restL>>

BalEnter == \E r \in Ranks : LoadBalancing_Enter(r)

BalSendReturns == \E r \in Ranks : SendReturns(r)

BalWorkerBarrier == \E r \in Ranks : WorkerBarrier(r)

BalBcastRecv == \E r \in Ranks : BcastRecv(r)

BalBeginTournament == \E r \in Ranks : BeginTournament(r)

BalTurnSend == \E r \in Ranks : TurnSend(r)

BalTurnRecv == \E r \in Ranks : TurnRecv(r)

BalanceNext ==
    \/ BalEnter
    \/ BalSendReturns
    \/ GatherRecv
    \/ RootBalance
    \/ BalWorkerBarrier
    \/ BalBcastRecv
    \/ BalBeginTournament
    \/ BalTurnSend
    \/ BalTurnRecv


(***************************************************************************)
(* Claims about load balancing (specification SpecBalance)                 *)
(***************************************************************************)
\* Every rank has returned from LoadBalancing
BalReturned == \A r \in Ranks : procs[r].pc = "done" /\ procs[r].sending = -1

\* Where the pair of slot i of rank r at entry is found after the call
HoldersOf(r, i) ==
    { <<q, j>> \in Ranks \X (1 .. MaxBalSlots) :
        /\ j <= Len(procs[q].sph.sphdata)
        /\ Len(procs[q].sph.sphintdata) = Len(procs[q].sph.sphdata)
        /\ procs[q].sph.sphdata[j] = procs[r].entry.sphdata[i]
        /\ procs[q].sph.sphintdata[j] = procs[r].entry.sphintdata[i] }

\* C14: when all ranks have returned from LoadBalancing, every particle
\* held at entry is held exactly once, with SphParticle and SphIntParticle
\* unchanged: at the rank it was selected for, or at its old rank when it
\* was not selected; and no rank holds anything else.  A rank that has
\* returned already holds the particles selected for it.
C14_MigrationPreserves ==
    /\ \A q \in Ranks : procs[q].pc = "done" =>
          \A r \in Ranks : \A j \in 1 .. Len(procs[r].to_transfer[q]) :
              \E h \in HoldersOf(r, procs[r].to_transfer[q][j]) : h[1] = q
    /\ BalReturned =>
        /\ \A r \in Ranks : \A i \in 1 .. Len(procs[r].entry.sphdata) :
              LET dests == { inode \in Ranks :
                               \E j \in 1 .. Len(procs[r].to_transfer[inode]) :
                                   procs[r].to_transfer[inode][j] = i }
              IN  /\ Cardinality(HoldersOf(r, i)) = 1
                  /\ Cardinality(dests) <= 1
                  /\ \A h \in HoldersOf(r, i) :
                        h[1] \in (IF dests = {} THEN {r} ELSE dests)
        /\ \A q \in Ranks : \A j \in 1 .. Len(procs[q].sph.sphdata) :
              \E r \in Ranks : \E i \in 1 .. Len(procs[r].entry.sphdata) :
                  <<q, j>> \in HoldersOf(r, i)

C14_Witness ==
    /\ BalReturned
    /\ world.Nmpi = 4
    /\ \E r \in Ranks : \E i \in 1 .. Len(procs[r].entry.sphdata) :
          \E h \in HoldersOf(r, i) : h[1] # r
    /\ \E r \in Ranks : \E i \in 1 .. Len(procs[r].entry.sphdata) :
          \E h \in HoldersOf(r, i) : h[1] = r



\* All particles of the run, as <<position, nstep>> of every slot held at
\* entry
EntryParticles ==
    { <<r, i>> \in Ranks \X (1 .. MaxBalSlots) : i <= Len(procs[r].entry.sphdata) }

\* W_w: the sum of 1/nstep over the particles inside the box of worker w
DomainWork(domains, w) ==
    LET inside == SetToAscSeq({ 10 * s[1] + s[2] : s \in
                     { s \in EntryParticles :
                         ParticleInBox(procs[s[1]].entry.sphdata[s[2]].r,
                                       domains[w]) } })
    IN  FSum([ j \in 1 .. Len(inside) |->
                 WorkOf(procs[inside[j] \div 10].entry, inside[j] % 10) ],
             Len(inside))

\* max_w W_w - min_w W_w
WorkSpread(domains) ==
    LET W == [ w \in Ranks |-> DomainWork(domains, w) ]
        hi == CHOOSE a \in Ranks : \A b \in Ranks : FLe(W[b], W[a])
        lo == CHOOSE a \in Ranks : \A b \in Ranks : FLe(W[a], W[b])
    IN  FSub(W[hi], W[lo])

\* Rank 0 has computed the new domain boxes of this call
Rebalanced == world.Nmpi > 1 /\ procs[0].pc \in {"barrier2", "turn", "done"}

NewDomains == [ w \in Ranks |-> procs[0].mpinode[w].domain ]

\* C15: after one LoadBalancing step the spread of the per-worker work,
\* max_w W_w - min_w W_w with W_w the sum of 1/nstep over the particles
\* inside the domain of worker w, is not larger than before the step.
C15_SpreadDoesNotGrow ==
    Rebalanced =>
        FLe(WorkSpread(NewDomains), WorkSpread(BalDomains(world.Nmpi)))

\* The call has ended with every worker's domain replaced and the spread
\* larger than at entry
C15_SpreadGrew ==
    /\ BalReturned /\ world.Nmpi > 1
    /\ \A r \in Ranks : \A w \in Ranks :
          procs[r].mpinode[w].domain = NewDomains[w]
    /\ FLt(WorkSpread(BalDomains(world.Nmpi)), WorkSpread(NewDomains))


\* Rank 0 has completed the loop of MPI_Recv over the other ranks
Gathered == world.Nmpi > 1 /\ procs[0].pc \in {"barrier1", "barrier2", "turn", "done"}

\* C19: after the gather phase rank 0's copy of every worker's worktot,
\* rwork and worksent[k] equals what that worker computed locally in this
\* call, and rank 0's workreceived is the transpose of its worksent:
\* mpinode[b].workreceived[a] = mpinode[a].worksent[b] for all a, b.
C19_GatherFaithful ==
    Gathered =>
        /\ \A w \in Ranks :
              /\ procs[0].mpinode[w].worktot = procs[w].mpinode[w].worktot
              /\ procs[0].mpinode[w].rwork = procs[w].mpinode[w].rwork
              /\ \A k \in Ranks : procs[0].mpinode[w].worksent[k]
                                    = procs[w].mpinode[w].worksent[k]
        /\ \A a \in Ranks : \A b \in Ranks :
              procs[0].mpinode[b].workreceived[a] = procs[0].mpinode[a].worksent[b]

\* Rank 0 holds a worksent entry of a worker that the worker never computed
C19_StaleWorksent ==
    /\ Gathered
    /\ \E w \in Ranks \ {0} : \E k \in Ranks :
          procs[0].mpinode[w].worksent[k] # procs[w].mpinode[w].worksent[k]

\* Rank 0's own column of workreceived is not the transpose of its worksent
C19_NotTranspose ==
    /\ Gathered
    /\ \A w \in Ranks \ {0} : \A k \in Ranks :
          procs[0].mpinode[w].worksent[k] = procs[w].mpinode[w].worksent[k]
    /\ \E b \in Ranks :
          procs[0].mpinode[b].workreceived[0] # procs[0].mpinode[0].worksent[b]

\* The two children and the work-weighted mean of their centres
WeightedMean(tree, c) ==
    LET c2 == tree[c].c2
    IN  FDiv(FAdd(FMul(tree[c + 1].worktot, tree[c + 1].rwork),
                  FMul(tree[c2].worktot, tree[c2].rwork)),
             FAdd(tree[c + 1].worktot, tree[c2].worktot))

\* C20: after the upward walk every leaf cell carries the worktot and rwork
\* of its worker, and every internal cell's worktot is the sum of its two
\* children's worktot and its rwork the work-weighted mean of its two
\* children's rwork.
C20_UpwardWalk ==
    Rebalanced =>
        \A c \in 0 .. (procs[0].mpitree.Ncell - 1) :
            LET tree == procs[0].mpitree.tree
            IN  IF tree[c].c2 = 0
                THEN /\ tree[c].worktot = procs[0].mpinode[tree[c].c2g].worktot
                     /\ tree[c].rwork = procs[0].mpinode[tree[c].c2g].rwork
                ELSE /\ tree[c].worktot = FAdd(tree[c + 1].worktot,
                                               tree[tree[c].c2].worktot)
                     /\ tree[c].rwork = WeightedMean(tree, c)

\* Leaves and sums are as claimed while the centre of an internal cell is
\* not the mean of its children
C20_WrongCentre ==
    /\ Rebalanced
    /\ \A c \in 0 .. (procs[0].mpitree.Ncell - 1) :
          LET tree == procs[0].mpitree.tree
          IN  IF tree[c].c2 = 0
              THEN /\ tree[c].worktot = procs[0].mpinode[tree[c].c2g].worktot
                   /\ tree[c].rwork = procs[0].mpinode[tree[c].c2g].rwork
              ELSE tree[c].worktot = FAdd(tree[c + 1].worktot,
                                          tree[tree[c].c2].worktot)
    /\ \E c \in 0 .. (procs[0].mpitree.Ncell - 1) :
          /\ procs[0].mpitree.tree[c].c2 # 0
          /\ procs[0].mpitree.tree[c].rwork # WeightedMean(procs[0].mpitree.tree, c)


\* Some rank has stopped in ExceptionHandler::raise at the memory test of
\* line 835
MemoryRaised ==
    \E r \in Ranks : procs[r].error = "Not enough memory for transfering particles"

MaxStars == 2           \* largest number of stars
MaxTime == 4            \* integer times n simulated

\* 0.5*x for the even x the routines form
HalfOf(x) == x \div 2

\* Lines 228-242: one star through the loop body of AdvanceParticles
AdvanceStar(star, n, timestep) ==
    LET nstep == star.nstep
        dn == n - star.nlast
        dt == timestep * dn
    IN  [ star EXCEPT !.r = star.r0 + star.v0 * dt,
                      !.v = star.v0 + star.a0 * dt,
                      !.active = (dn = nstep \div 2) ]

\* Lines 275-281: one star through the loop body of CorrectionTerms
CorrectStar(star, n, timestep) ==
    IF n - star.nlast = star.nstep
    THEN [ star EXCEPT !.v = @ + HalfOf(star.a - star.a0) * timestep * star.nstep ]
    ELSE star

\* An EndTimestep that closes the step of every star
EndStar_Always(star, n) ==
    [ star EXCEPT !.r0 = star.r, !.v0 = star.v, !.a0 = star.a,
                  !.active = FALSE, !.nlast = n ]

\* Lines 349-360: one star through the loop body of EndTimestep
EndStar(star, n) ==
    IF n - star.nlast = star.nstep
    THEN [ star EXCEPT !.r0 = star.r, !.v0 = star.v, !.a0 = star.a,
                       !.active = FALSE, !.nlast = n ]
    ELSE star

\* A star at the start of the run: the checkpoint equals the current values
NewStar(r, v, a, nstep) ==
    [ r |-> r, v |-> v, a |-> a, r0 |-> r, v0 |-> v, a0 |-> a,
      active |-> FALSE, nlast |-> 0, nstep |-> nstep ]

NbodyInit ==
    \E N \in 1 .. MaxStars, timestep \in {1, 2} :
    \E rs \in [ 1 .. N -> {3} ], vs \in [ 1 .. N -> {-1, 2} ],
       as \in [ 1 .. N -> {0, 2} ], nsteps \in [ 1 .. N -> {1, 2, 4} ] :
        nbody = [ pc |-> "advance", n |-> 0, timestep |-> timestep,
                  star |-> [ i \in 1 .. N |->
                               NewStar(rs[i], vs[i], as[i], nsteps[i]) ],
                  marks |-> [ i \in 1 .. N |-> 0 ],
                  closed |-> [ i \in 1 .. N |-> -1 ],
                  before |-> <<>> ]

\* The main loop advances the integer time by one and calls
\* AdvanceParticles (lines 212-248).  History: marks[i] counts the calls of
\* the star's current block step that left it active.
NbodyAdvanceParticles ==
    /\ nbody.pc = "advance"
    /\ nbody.n < MaxTime
    /\ \E star \in {[ i \in DOMAIN nbody.star |->
                        AdvanceStar(nbody.star[i], nbody.n + 1, nbody.timestep) ]} :
          nbody' = [ nbody EXCEPT
                       !.n = @ + 1,
                       !.star = star,
                       !.marks = [ i \in DOMAIN star |->
                                     @[i] + IF star[i].active THEN 1 ELSE 0 ],
                       !.pc = "forces" ]
    /\ UNCHANGED restN

\* The force routines give every active star a new acceleration
NbodyCalculateForces ==
    /\ nbody.pc = "forces"
    /\ \E as \in [ DOMAIN nbody.star -> {-2, 2} ] :
          nbody' = [ nbody EXCEPT
                       !.star = [ i \in DOMAIN nbody.star |->
                                    IF nbody.star[i].active
                                    THEN [ nbody.star[i] EXCEPT !.a = as[i] ]
                                    ELSE nbody.star[i] ],
                       !.pc = "correct" ]
    /\ UNCHANGED restN

\* CorrectionTerms (lines 259-287)
NbodyCorrectionTerms ==
    /\ nbody.pc = "correct"
    /\ nbody' = [ nbody EXCEPT
                    !.star = [ i \in DOMAIN nbody.star |->
                                 CorrectStar(nbody.star[i], nbody.n, nbody.timestep) ],
                    !.pc = "end" ]
    /\ UNCHANGED restN

\* EndTimestep (lines 336-365).  History: before is the star array at the
\* call, closed[i] the marks of the block step the call has closed.
NbodyEndTimestep ==
    /\ nbody.pc = "end"
    /\ nbody' = [ nbody EXCEPT
                    !.star = [ i \in DOMAIN nbody.star |->
                                 EndStar(nbody.star[i], nbody.n) ],
                    !.before = nbody.star,
                    !.closed = [ i \in DOMAIN nbody.star |->
                                   IF nbody.n - nbody.star[i].nlast = nbody.star[i].nstep
                                   THEN nbody.marks[i] ELSE @[i] ],
                    !.marks = [ i \in DOMAIN nbody.star |->
                                  IF nbody.n - nbody.star[i].nlast = nbody.star[i].nstep
                                  THEN 0 ELSE @[i] ],
                    !.pc = "advance" ]
    /\ UNCHANGED restN

NbodyNext ==
    \/ NbodyAdvanceParticles
    \/ NbodyCalculateForces
    \/ NbodyCorrectionTerms
    \/ NbodyEndTimestep


(***************************************************************************)
(* Claims about the N-body integrator (specification SpecNbody)            *)
(***************************************************************************)
\* AdvanceParticles has just returned
Advanced == nbody.pc = "forces"

\* Time since the start of the star's current block step
StarDt(star) == nbody.timestep * (nbody.n - star.nlast)

\* C16: AdvanceParticles places every star at
\* r = r0 + v0*dt + 0.5*a0*dt^2 and v = v0 + a0*dt, with
\* dt = timestep*(n - nlast).
C16_AdvanceSecondOrder ==
    Advanced =>
        \A i \in DOMAIN nbody.star :
            LET star == nbody.star[i]
                dt == StarDt(star)
            IN  /\ star.r = star.r0 + star.v0 * dt + HalfOf(star.a0 * dt * dt)
                /\ star.v = star.v0 + star.a0 * dt

\* After AdvanceParticles a star with a0 # 0 is at r0 + v0*dt, and its
\* velocity is v0 + a0*dt
C16_FirstOrderDrift ==
    /\ Advanced
    /\ \E i \in DOMAIN nbody.star :
          LET star == nbody.star[i]
              dt == StarDt(star)
          IN  /\ star.a0 # 0 /\ dt > 0
              /\ star.r = star.r0 + star.v0 * dt
              /\ star.v = star.v0 + star.a0 * dt
              /\ star.r # star.r0 + star.v0 * dt + HalfOf(star.a0 * dt * dt)



\* The box of the whole simulation, the root cell of the MPI tree
RootBox ==
    [ boxmin |-> BalDomains(world.Nmpi)[0].boxmin,
      boxmax |-> BalDomains(world.Nmpi)[world.Nmpi - 1].boxmax ]

\* The boxes D of the ranks tile the box root: none is inverted, no two
\* overlap in their interiors, and they leave no gap
Tiles(D, root) ==
    /\ \A w \in Ranks : FLe(D[w].boxmin, D[w].boxmax)
    /\ \A a \in Ranks : \A b \in Ranks \ {a} :
          FLe(D[a].boxmax, D[b].boxmin) \/ FLe(D[b].boxmax, D[a].boxmin)
    /\ \A w \in Ranks :
          /\ FLe(root.boxmin, D[w].boxmin) /\ FLe(D[w].boxmax, root.boxmax)
          /\ D[w].boxmin = root.boxmin \/ \E b \in Ranks \ {w} : D[b].boxmax = D[w].boxmin
          /\ D[w].boxmax = root.boxmax \/ \E b \in Ranks \ {w} : D[b].boxmin = D[w].boxmax

\* C21: after a LoadBalancing step the leaf domain boxes broadcast to the
\* workers tile the root box: every box has boxmin <= boxmax, no two
\* domains overlap in their interiors and their union is the root box.
C21_DomainsTile ==
    Rebalanced => /\ net.bcast = NewDomains
                  /\ Tiles(NewDomains, RootBox)

\* The broadcast boxes share their split planes while one of them is
\* inverted or reaches beyond the root box
C21_PlaneOutsideParent ==
    /\ Rebalanced /\ net.bcast = NewDomains
    /\ \A w \in Ranks \ {0} : NewDomains[w - 1].boxmax = NewDomains[w].boxmin
    /\ \E w \in Ranks : \/ FLt(NewDomains[w].boxmax, NewDomains[w].boxmin)
                        \/ FLt(RootBox.boxmax, NewDomains[w].boxmax)
                        \/ FLt(NewDomains[w].boxmin, RootBox.boxmin)


(***************************************************************************)
(* Successive calls of LoadBalancing on rank 0 (specification SpecLevels). *)
(* Only what rank 0 keeps from call to call is followed: balance_level and *)
(* the MPI tree.  The work gathered in each call is an input.              *)
(***************************************************************************)
MaxBalCalls == 4        \* calls of LoadBalancing followed

\* The work rank 0 has gathered in one call: every rank with total work 1,
\* its centre at shift/4 from the middle of its first domain, and the same
\* work sent between every two ranks
GatheredWork(Nmpi, mpinode, shift, sent) ==
    [ inode \in 0 .. (Nmpi - 1) |->
        [ mpinode[inode] EXCEPT
            !.worktot = FInt(1),
            !.rwork = FAdd(FHalf(FAdd(BalDomains(Nmpi)[inode].boxmin,
                                      BalDomains(Nmpi)[inode].boxmax)),
                           FRat(shift, 4)),
            !.worksent = [ k \in 0 .. (Nmpi - 1) |->
                             IF k = inode THEN FZero ELSE sent ] ] ]

\* The divisions of lines 679-684 have nonzero divisors on the balanced
\* level (with a zero divisor the code continues with an infinite or
\* undefined plane; such inputs are left out)
FiniteBoundaries(tree, level) ==
    \A c \in DOMAIN tree :
        (tree[c].clevel = level /\ tree[c].c2 # 0) =>
            \E d1 \in {FSub(tree[c + 1].bbmax, tree[c + 1].rwork)},
               d2 \in {FSub(tree[tree[c].c2].rwork, tree[tree[c].c2].bbmin)} :
                /\ d1 # FZero /\ d2 # FZero
                /\ FAdd(FDiv(FHalf(tree[c + 1].worktot), d1),
                        FDiv(FHalf(tree[tree[c].c2].worktot), d2)) # FZero

LevelsInit ==
    /\ \E n \in {2, 4} \cap (1 .. MaxBalNmpi) : world = [ Nmpi |-> n, sync |-> FALSE ]
    /\ \E stale \in StaleRwork :
          procs = [ r \in {0} |->
            [ pc |-> "idle", calls |-> 0, levels |-> <<>>,
              balance_level |-> 0,
              mpitree |-> MpiTree(world.Nmpi, BalDomains(world.Nmpi), stale),
              before |-> MpiTree(world.Nmpi, BalDomains(world.Nmpi), stale).tree,
              mpinode |-> [ inode \in Ranks |->
                  [ worktot |-> FZero, rwork |-> FZero,
                    worksent |-> [ k \in Ranks |-> FZero ],
                    workreceived |-> [ k \in Ranks |-> FZero ],
                    domain |-> BalDomains(world.Nmpi)[inode] ] ] ] ]
    /\ net = [ chan |-> <<>>, bcast |-> <<>> ]

\* Lines 611-731 in one more call: the tree walks of rank 0 on the work of
\* this call
LoadBalancing_Root ==
    /\ procs[0].calls < MaxBalCalls
    /\ \E shift \in {-1, 1, 3}, sent \in {FZero, FRat(1, 4)} :
       \E mpinode \in {GatheredWork(world.Nmpi, procs[0].mpinode, shift, sent)} :
       \E level \in {NextBalanceLevel(procs[0].balance_level, procs[0].mpitree.ltot)} :
       \E up \in {UpwardWalk(procs[0].mpitree.tree, mpinode,
                             procs[0].mpitree.Ncell - 1)} :
       FiniteBoundaries(up, level) /\
       \E T \in {DownwardWalk([ tree |-> up, mpinode |-> mpinode ], 0,
                              procs[0].mpitree.Ncell, level)} :
          /\ procs' = [ procs EXCEPT ![0].balance_level = level,
                                     ![0].before = procs[0].mpitree.tree,
                                     ![0].mpitree.tree = T.tree,
                                     ![0].mpinode = T.mpinode,
                                     ![0].calls = @ + 1,
                                     ![0].levels = Append(@, level) ]
          /\ net' = [ net EXCEPT !.bcast =
                         [ inode \in Ranks |-> T.mpinode[inode].domain ] ]
    /\ UNCHANGED <<world, nbody, restL>>

LevelsNext == LoadBalancing_Root

\* The split plane of an internal cell: the face its two children share
SplitPlane(tree, c) == <<tree[c + 1].bbmax, tree[tree[c].c2].bbmin>>

InternalCells == { c \in 0 .. (procs[0].mpitree.Ncell - 1) :
                     procs[0].mpitree.tree[c].c2 # 0 }

\* C22: successive LoadBalancing calls on rank 0 adjust one tree level per
\* call, in the cyclic order ltot-1, ltot-2, ..., 0, ltot-1, ...; after
\* its update balance_level lies in [0, ltot-1], and only cells on that
\* level have their split plane moved in that call.
C22_LevelsCyclic ==
    LET ltot == procs[0].mpitree.ltot
        levels == procs[0].levels
    IN  /\ \A j \in 1 .. Len(levels) :
              /\ levels[j] \in 0 .. (ltot - 1)
              /\ levels[j] = (ltot - 1) - ((j - 1) % ltot)
        /\ procs[0].calls > 0 =>
              /\ procs[0].balance_level = levels[Len(levels)]
              /\ \A c \in InternalCells :
                    procs[0].mpitree.tree[c].clevel # procs[0].balance_level =>
                        SplitPlane(procs[0].mpitree.tree, c)
                            = SplitPlane(procs[0].before, c)

\* The levels have wrapped round once, and the last call moved a plane on
\* its level while the tree holds an earlier plane of the other level
C22_Witness ==
    /\ world.Nmpi = 4 /\ procs[0].calls = 3
    /\ procs[0].levels = <<1, 0, 1>>
    /\ \E c \in InternalCells :
          /\ procs[0].mpitree.tree[c].clevel = 1
          /\ SplitPlane(procs[0].mpitree.tree, c) # SplitPlane(procs[0].before, c)
    /\ SplitPlane(procs[0].mpitree.tree, 0) # <<FInt(8), FInt(8)>>


\* C23: with n advancing by one per AdvanceParticles call and EndTimestep
\* closing each block step, every star is marked active exactly once per
\* block step, at the call where n - nlast = nstep/2, and is inactive at
\* every other call, for every step size nstep >= 1.
C23_ActiveOncePerStep ==
    \A i \in DOMAIN nbody.star :
        /\ nbody.closed[i] \in {-1, 1}
        /\ nbody.marks[i] <= 1
        /\ Advanced => (nbody.star[i].active <=>
                           nbody.n - nbody.star[i].nlast = nbody.star[i].nstep \div 2)

\* A block step of a star with nstep = 1 has closed without any call that
\* marked the star active
C23_NeverActive ==
    \E i \in DOMAIN nbody.star :
        nbody.star[i].nstep = 1 /\ nbody.closed[i] = 0

\* Stars with nstep >= 2 are marked exactly once in every block step
C23_EvenStepsMarkedOnce ==
    \A i \in DOMAIN nbody.star :
        nbody.star[i].nstep >= 2 =>
            /\ nbody.closed[i] \in {-1, 1}
            /\ nbody.marks[i] <= 1


\* EndTimestep has just returned
Ended == nbody.pc = "advance" /\ nbody.before # <<>>

\* C24: EndTimestep(n) copies r, v, a into r0, v0, a0, clears active and
\* sets nlast = n for exactly the stars with n - nlast = nstep, and leaves
\* every field of every other star unchanged.
C24_EndTimestepFrame ==
    Ended =>
        \A i \in DOMAIN nbody.star :
            LET was == nbody.before[i]
                star == nbody.star[i]
            IN  IF nbody.n - was.nlast = was.nstep
                THEN star = [ was EXCEPT !.r0 = was.r, !.v0 = was.v, !.a0 = was.a,
                                         !.active = FALSE, !.nlast = nbody.n ]
                ELSE star = was

\* EndTimestep has closed the step of one star, whose checkpoint moved,
\* while another star in the middle of its step was still active
C24_Witness ==
    /\ Ended
    /\ \E i \in DOMAIN nbody.star :
          /\ nbody.n - nbody.before[i].nlast = nbody.before[i].nstep
          /\ nbody.before[i].r0 # nbody.before[i].r
          /\ nbody.star[i].r0 = nbody.before[i].r
          /\ nbody.star[i].nlast = nbody.n
    /\ \E i \in DOMAIN nbody.star :
          /\ nbody.n - nbody.before[i].nlast # nbody.before[i].nstep
          /\ nbody.before[i].active
          /\ nbody.star[i] = nbody.before[i]

(***************************************************************************)
(* Claims about the capacity of the ghost slots                            *)
(***************************************************************************)

\* C25: CreateGhostParticle never writes a slot of index >= Nsphmax: once
\* Nghost has reached Nghostmax = Nsphmax - Nsph the capacity test rejects
\* the call before sphdata[Nsph + Nghost] is written.  In the model the cell
\* sphdata[Nsphmax] stands for the memory behind the array.
C25_NoWriteBehindArray ==
    gst.last = "search" => gsph.sphdata[gsph.Nsphmax] = NoParticle

\* The case C25 fails on: with Nghost = Nghostmax the test Nghost > Nghostmax
\* of line 250 lets the call pass, the ghost lands in sphdata[Nsphmax], and
\* only the next creation raises the error
C25_GhostInSlotNsphmax ==
    /\ gst.last = "search"
    /\ gsph.pc = "error"
    /\ gsph.error = "Not enough memory for new ghost"
    /\ gsph.Nghost = gsph.Nghostmax + 1
    /\ gsph.sphdata[gsph.Nsphmax].itype \in
           { GhostType(k, side, kind) : k \in Axes, side \in {"lhs", "rhs"},
                                        kind \in {"periodic", "mirror"} }
    /\ gsph.sphdata[gsph.Nsphmax].iorig \in 0 .. (gsph.Nsphmax - 1)


(***************************************************************************)
(* Claims about the value ComputeH returns (specification SpecH)           *)
(***************************************************************************)

\* C26: ComputeH returns 1 only if the convergence test (rho > 0, h > h_lo,
\* |h - h_fac*(m/rho)^(1/ndim)| < h_converge) passed in its last pass, or if
\* the final h was clamped to h_lo; it never returns 1 after leaving the loop
\* merely because h reached h_upper_bound.
C26_ReturnOneMeansConverged ==
    (hst.pc = "done" /\ hst.result = 1) =>
        \/ hst.converged
        \/ parti.h = hst.h_lower_bound

\* The case C26 fails on: the fixed-point update put h exactly on
\* h_upper_bound = hmax with a positive density; line 182 (h > hmax) does
\* not return 0, the loop condition h < h_upper_bound of line 184 ends the
\* loop without the break, and line 238 (h <= hmax) returns 1
C26_ReturnOneAtUpperBound ==
    /\ hst.pc = "done"
    /\ hst.result = 1
    /\ ~hst.converged
    /\ FLt(FZero, parti.rho)
    /\ parti.h = hst.h_upper_bound
    /\ parti.h = neib.hmax
    /\ parti.h # hst.h_lower_bound


(***************************************************************************)
(* Claims about the artificial viscosity of the two hydro routines         *)
(* (specification SpecForce)                                               *)
(***************************************************************************)
\* The pair the neighbour loop in progress treats next is approaching
ApproachingPair ==
    LET pi == sph[fcall.i]
        pj == sph[fcall.list[fcall.jj]]
    IN  (pj.v - pi.v) * Sign(pj.r - pi.r) < 0

\* a and du/dt of every particle agree in the arrays S and T
SameHydroTerms(S, T) ==
    \A p \in Part : S[p].a = T[p].a /\ S[p].dudt = T[p].dudt

\* C27: for the same approaching pair and mon97 viscosity,
\* ComputeSphHydroGravForces and ComputeSphHydroForces use the same signal
\* speed v_sig = c_i + c_j - beta_visc*alpha_visc*(v_ij.r_ij), so the pair's
\* contributions to the accelerations a and to du/dt are the same whichever
\* of the two routines treats it.
C27_SameSignalSpeed ==
    [][ /\ params.avisc = "mon97"
        /\ InLoop("hydro") \/ InLoop("hydrograv")
        /\ ApproachingPair
        => LET i == fcall.i
               j == fcall.list[fcall.jj]
           IN  /\ SameHydroTerms(sph', HydroForcesPair(sph, i, j))
               /\ SameHydroTerms(sph', HydroGravForcesPair(sph, i, j)) ]_vars

\* The case C27 fails on: ComputeSphHydroGravForces has treated an
\* approaching pair with v_sig = c_i + c_j - beta_visc*(v_ij.r_ij) (line 424,
\* no factor alpha_visc), and du/dt of the pair differs from zero
C27_GravRoutineTreatedPair ==
    /\ params.avisc = "mon97"
    /\ fcall.fn = "hydrograv"
    /\ fcall.jj > 1
    /\ \E p \in Part : sph[p].dudt # 0


(***************************************************************************)
(* ----------------------------------------------------------------------- *)
(* PART 8.  PeriodicGhosts::CheckBoundaries on concurrent threads          *)
(* ----------------------------------------------------------------------- *)
(* The loop of lines 62-99 under the pragma of line 61: i and part are     *)
(* private to a thread, the pointer partint is one variable for the whole  *)
(* team.  A thread's accesses to partint and to r0 are unsynchronised, so  *)
(* a use of partint yields either the address the thread stored itself     *)
(* (the value kept in a register) or the address stored there last, and    *)
(* the update of r0 is a load followed by a store.  The team is kept in    *)
(* gst: gst.thr[t] is thread t, gst.partint the shared pointer, gst.todo   *)
(* the iterations no thread has taken.                                     *)
(***************************************************************************)
MaxThreads == 2         \* largest team that runs the loop

\* A thread between two iterations
OmpIdle == [ pc |-> "idle", i |-> 0, part |-> 0, tst |-> 0, q |-> 0,
             tmp |-> 0 ]

OmpInit ==
    /\ WrapData
    /\ \E nt \in 1 .. MaxThreads :
          gst = [ last |-> "enter", calls |-> 0,
                  before |-> [ sphdata |-> gsph.sphdata,
                               sphintdata |-> gsph.sphintdata ],
                  thr |-> [ t \in 1 .. nt |-> OmpIdle ],
                  partint |-> 0,
                  todo |-> 0 .. (gsph.Nsph - 1) ]

\* Axis and direction of the test number tst = 0 .. 5 of the loop body:
\* boxmin of x, boxmax of x, boxmin of y, ...
TestAxis(tst) == tst \div 2

TestShift(tst) ==
    IF tst % 2 = 0 THEN simbox.boxsize[TestAxis(tst)]
    ELSE -simbox.boxsize[TestAxis(tst)]

\* The condition of test tst on position r (lines 66-67, 71-72, ...)
TestHolds(tst, r) ==
    IF tst % 2 = 0
    THEN /\ r[TestAxis(tst)] < simbox.boxmin[TestAxis(tst)]
         /\ simbox.boundary_lhs[TestAxis(tst)] = "periodic"
    ELSE /\ r[TestAxis(tst)] > simbox.boxmax[TestAxis(tst)]
         /\ simbox.boundary_rhs[TestAxis(tst)] = "periodic"

\* The thread after test tst: the next test, or the end of the iteration
AfterTest(th) ==
    IF th.tst = 2 * ndim - 1 THEN OmpIdle
    ELSE [ th EXCEPT !.pc = "test", !.tst = @ + 1 ]

\* Lines 62-64: thread t takes iteration i, part = &sphdata[i] and
\* partint = &sphintdata[i]
OmpIteration(t) ==
    /\ gst.last = "enter"
    /\ gst.thr[t].pc = "idle"
    /\ \E i \in gst.todo :
          gst' = [ gst EXCEPT !.thr[t] = [ OmpIdle EXCEPT !.pc = "test",
                                                          !.i = i, !.part = i ],
                              !.partint = i,
                              !.todo = @ \ {i} ]
    /\ UNCHANGED <<gsph, simbox, mpi, restG>>

\* One of the six tests and, when it holds, part->r[k] +-= boxsize[k]
OmpTest(t) ==
    /\ gst.last = "enter"
    /\ gst.thr[t].pc = "test"
    /\ LET th == gst.thr[t]
           k == TestAxis(th.tst)
       IN  IF TestHolds(th.tst, gsph.sphdata[th.part].r)
           THEN /\ gsph' = [ gsph EXCEPT !.sphdata[th.part].r[k] =
                                            @ + TestShift(th.tst) ]
                /\ gst' = [ gst EXCEPT !.thr[t].pc = "load" ]
           ELSE /\ gsph' = gsph
                /\ gst' = [ gst EXCEPT !.thr[t] = AfterTest(th) ]
    /\ UNCHANGED <<simbox, mpi, restG>>

\* partint->r0[k] +-= boxsize[k], first half: the thread takes the address
\* from partint and loads r0[k]
OmpLoad(t) ==
    /\ gst.last = "enter"
    /\ gst.thr[t].pc = "load"
    /\ \E q \in {gst.thr[t].part, gst.partint} :
          gst' = [ gst EXCEPT !.thr[t].pc = "store", !.thr[t].q = q,
                              !.thr[t].tmp =
                                  gsph.sphintdata[q].r0[TestAxis(gst.thr[t].tst)] ]
    /\ UNCHANGED <<gsph, simbox, mpi, restG>>

\* partint->r0[k] +-= boxsize[k], second half: the store
OmpStore(t) ==
    /\ gst.last = "enter"
    /\ gst.thr[t].pc = "store"
    /\ LET th == gst.thr[t]
       IN  /\ gsph' = [ gsph EXCEPT !.sphintdata[th.q].r0[TestAxis(th.tst)] =
                                       th.tmp + TestShift(th.tst) ]
           /\ gst' = [ gst EXCEPT !.thr[t] = AfterTest(th) ]
    /\ UNCHANGED <<simbox, mpi, restG>>

\* Lines 99-102: every iteration is done, the team joins and the call
\* returns
OmpReturn ==
    /\ gst.last = "enter"
    /\ gst.todo = {}
    /\ \A t \in DOMAIN gst.thr : gst.thr[t].pc = "idle"
    /\ gst' = [ gst EXCEPT !.last = "wrap", !.calls = @ + 1 ]
    /\ UNCHANGED <<gsph, simbox, mpi, restG>>

OmpNext ==
    \/ \E t \in DOMAIN gst.thr : OmpIteration(t)
    \/ \E t \in DOMAIN gst.thr : OmpTest(t)
    \/ \E t \in DOMAIN gst.thr : OmpLoad(t)
    \/ \E t \in DOMAIN gst.thr : OmpStore(t)
    \/ OmpReturn

(***************************************************************************)
(* Claims about the concurrent wrap (specification SpecWrapOmp)            *)
(***************************************************************************)
\* The offset r - r0 of particle i on axis k in the arrays d
StepOffset(d, i, k) == d.sphdata[i].r[k] - d.sphintdata[i].r0[k]

\* C28: CheckBoundaries shifts r0[k] by the same +-boxsize[k] as r[k], so
\* r - r0 of every particle is what it was before the call, and it leaves
\* a particle untouched on an axis whose boundaries are open or mirror;
\* this also holds when the iterations of the loop run on concurrent
\* threads with i and part private and partint not private: no particle's
\* r0 is shifted because of another particle's wrap.
C28_OffsetKeptUnderThreads ==
    (gst.last = "wrap" /\ gst.calls = 1) =>
        \A i \in 0 .. (gsph.Nsph - 1) : \A k \in Axes :
            /\ StepOffset(gsph, i, k) = StepOffset(gst.before, i, k)
            /\ (/\ simbox.boundary_lhs[k] # "periodic"
                /\ simbox.boundary_rhs[k] # "periodic") =>
                  /\ gsph.sphdata[i].r[k] = gst.before.sphdata[i].r[k]
                  /\ gsph.sphintdata[i].r0[k] = gst.before.sphintdata[i].r0[k]

\* The case C28 fails on: a particle that was inside the box, and so was
\* not wrapped, returns with its r0 shifted
C28_ShiftedByNeighbour ==
    /\ gst.last = "wrap"
    /\ Cardinality(DOMAIN gst.thr) = 2
    /\ \E i \in 0 .. (gsph.Nsph - 1) : \E k \in Axes :
          /\ gsph.sphdata[i].r[k] = gst.before.sphdata[i].r[k]
          /\ gsph.sphintdata[i].r0[k] # gst.before.sphintdata[i].r0[k]

\* With a team of one thread the call keeps every offset
C28_SerialKeepsOffset ==
    (gst.last = "wrap" /\ gst.calls = 1 /\ DOMAIN gst.thr = {1}) =>
        \A i \in 0 .. (gsph.Nsph - 1) : \A k \in Axes :
            StepOffset(gsph, i, k) = StepOffset(gst.before, i, k)


(***************************************************************************)
(* ----------------------------------------------------------------------- *)
(* PART 9.  ComputeH called twice with the same inputs                     *)
(* ----------------------------------------------------------------------- *)
(* The solver of Part 2, GradhSph's or SM2012Sph's, is called for a        *)
(* particle, and called again for the same h, m, invrho and neighbour list *)
(* with other values in the fields the call accumulates into.  hst.run is  *)
(* the number of the call, hst.entry the particle as the caller set it up, *)
(* hst.first what the first call returned.                                 *)
(***************************************************************************)
\* Values the fields rho, invomega, zeta, chi and q hold before a call
PriorSums == {FZero, FInt(3)}

\* The particle p with prior in every field ComputeH accumulates into
WithPriorSums(p, prior) ==
    [ p EXCEPT !.rho = prior, !.invomega = prior, !.zeta = prior,
               !.chi = prior, !.q = prior ]

\* Entry of the ComputeH in use; SM2012Sph::ComputeH has no sink bound
SchemeEntry(p) ==
    HEntry(IF hpar.scheme = "SM2012Sph" THEN -1 ELSE p.sinkid,
           neib.hmax, hpar.hmin_sink)

RepeatInit ==
    /\ \E first \in {0, 2}, n \in 0 .. MaxNeib, hmax \in {FInt(2), FInt(4)} :
          LET nb == LatticeNeib(first, n)
          IN  neib = [ m |-> nb.m, mu |-> nb.m, drsqd |-> nb.drsqd,
                       hmax |-> hmax ]
    /\ \E scheme \in {"GradhSph", "SM2012Sph"} :
          hpar = [ h_fac |-> FOne, h_converge |-> FRat(1, 64),
                   hmin_sink |-> FRat(1, 2), scheme |-> scheme ]
    /\ \E h0 \in {FRat(1, 4), FOne, FInt(3)}, prior \in PriorSums,
          sinkid \in {-1, 0} :
          parti = WithPriorSums(
                    [ h |-> h0, m |-> FOne, invrho |-> FInt(2),
                      sinkid |-> sinkid,
                      rho |-> FZero, invh |-> FZero, hfactor |-> FZero,
                      invomega |-> FZero, zeta |-> FZero, chi |-> FZero,
                      q |-> FZero ], prior)
    /\ hst = SchemeEntry(parti) @@
             [ run |-> 1, entry |-> parti, first |-> <<>> ]

\* The caller keeps what the first call returned and calls ComputeH again
\* with the same inputs and other prior sums
ComputeH_CallAgain ==
    /\ hst.pc = "done"
    /\ hst.run = 1
    /\ \E prior \in PriorSums :
          /\ parti' = WithPriorSums(hst.entry, prior)
          /\ hst' = SchemeEntry(hst.entry) @@
                    [ run |-> 2, entry |-> hst.entry,
                      first |-> [ result |-> hst.result, parti |-> parti ] ]
    /\ UNCHANGED <<neib, hpar, restH>>

RepeatNext ==
    \/ ComputeH_Converged
    \/ ComputeH_FixedPoint
    \/ ComputeH_Midpoint
    \/ ComputeH_Bisect
    \/ ComputeH_Raise
    \/ ComputeH_Finish
    \/ ComputeH_CallAgain

(***************************************************************************)
(* Claims about repeated calls (specification SpecRepeat)                  *)
(***************************************************************************)
\* The second call returned what the first call returned
SameReturn ==
    /\ hst.result = hst.first.result
    /\ parti.h = hst.first.parti.h
    /\ parti.rho = hst.first.parti.rho
    /\ hst.result = 1 => /\ parti.zeta = hst.first.parti.zeta
                         /\ parti.chi = hst.first.parti.chi

\* C29: GradhSph::ComputeH and SM2012Sph::ComputeH both reset every sum
\* they accumulate (rho, invomega, zeta, chi, q) at the start of each h
\* iteration, so the returned rho, zeta and chi depend only on the final h
\* and the neighbour and star lists: two calls with the same inputs return
\* the same, whatever the particle held before and however many iterations
\* were needed.
C29_SameInputsSameOutputs ==
    (hst.run = 2 /\ hst.pc = "done") => SameReturn

\* The case C29 fails on: SM2012Sph::ComputeH converged twice for the same
\* inputs, with a positive density, and returned the same h and rho with
\* another zeta or chi
C29_PriorSumsLeak ==
    /\ hst.run = 2
    /\ hst.pc = "done"
    /\ hpar.scheme = "SM2012Sph"
    /\ hst.result = 1 /\ hst.first.result = 1
    /\ hst.converged
    /\ FLt(FZero, parti.rho)
    /\ parti.h = hst.first.parti.h
    /\ parti.rho = hst.first.parti.rho
    /\ parti.zeta # hst.first.parti.zeta \/ parti.chi # hst.first.parti.chi

\* GradhSph::ComputeH alone returns the same for the same inputs
C29_GradhRepeatable ==
    (hst.run = 2 /\ hst.pc = "done" /\ hpar.scheme = "GradhSph") => SameReturn


(***************************************************************************)
(* ----------------------------------------------------------------------- *)
(* PART 10.  MPI ghost exchange: MpiControl::SendReceiveGhosts and         *)
(* UpdateGhostParticles (MpiControl.cpp, lines 882-1012) with their        *)
(* callers MPIGhosts::SearchGhostParticles and CopySphDataToGhosts         *)
(* (Ghosts.cpp, lines 374-423)                                             *)
(* ----------------------------------------------------------------------- *)
(* procs[r] is rank r, world.Nmpi the number of ranks.  A rank's n-th      *)
(* MPI_Alltoallv is the collective number n: net[n][r] is what rank r      *)
(* handed to it (entered is FALSE before), and a rank leaves the call      *)
(* when every rank has entered it.  A pointer to a particle is its index   *)
(* in sphdata.  A particle carries the rank and index it was created with  *)
(* (id) and a state x that the integration changes; packed[n] is sphdata   *)
(* as it was when the rank filled its send buffer for collective n.        *)
(***************************************************************************)
MaxGhostNmpi == 3       \* largest number of ranks in the exchange
MaxOwn == 2             \* largest number of real particles of a rank
MaxUpdates == 2         \* calls of UpdateGhostParticles of a rank
MaxCollectives == 2 + MaxUpdates

\* running_counter of lines 919-925 and 959-963: the sum of cnt over the
\* nodes below n
RECURSIVE SumBelow(_, _)
SumBelow(cnt, n) == IF n = 0 THEN 0 ELSE SumBelow(cnt, n - 1) + cnt[n - 1]

Displacements(cnt) == [ n \in Ranks |-> SumBelow(cnt, n) ]

\* std::accumulate over the per-node counts
Accumulate(cnt) == SumBelow(cnt, world.Nmpi)

\* Sender whose block holds slot j of a receive buffer laid out with the
\* displacements displs and the counts cnt
SourceOf(j, displs, cnt) ==
    CHOOSE s \in Ranks : displs[s] < j /\ j <= displs[s] + cnt[s]

\* Lines 946-952 and 995-1001: the particles the pointers of
\* particles_to_export_per_node point to, as they are now, node after node
RECURSIVE PackExports(_, _)
PackExports(p, n) ==
    IF n = 0 THEN <<>>
    ELSE PackExports(p, n - 1) \o
         [ k \in 1 .. Len(p.particles_to_export_per_node[n - 1]) |->
             p.sphdata[p.particles_to_export_per_node[n - 1][k]] ]

\* An update that sends what particles_to_export held
UpdateBuffer_Stale(p) == p.particles_to_export

\* The loop of UpdateGhostParticles (lines 995-1001): "Update the local
\* buffer of particles to send"
UpdateBuffer(p) == PackExports(p, world.Nmpi)

\* Every rank has entered collective c
AllEntered(c) == \A s \in Ranks : net[c][s].entered

\* MPI_Alltoallv of the particles on rank r (lines 966-969, 1004-1007):
\* block s of the receive buffer, num_particles_to_be_received[s] slots from
\* receive_displs[s], takes what rank s sent to r; a slot the sender's block
\* does not reach keeps what it held
ReceiveParticles(p, r, c) ==
    [ j \in 1 .. p.tot_particles_to_receive |->
        LET s == SourceOf(j, p.receive_displs, p.num_particles_to_be_received)
            k == j - p.receive_displs[s]
        IN  IF k <= net[c][s].counts[r]
            THEN net[c][s].buf[net[c][s].displs[r] + k]
            ELSE p.particles_receive[j] ]

\* The loop of MPIGhosts::SearchGhostParticles (lines 391-395) and of
\* CopySphDataToGhosts (lines 412-416): main_array[start_index + j] =
\* ghost_array[j] with active = false; ghosts[j + 1] is that slot
StoreGhosts(ghost_array) ==
    [ j \in 1 .. Len(ghost_array) |-> [ ghost_array[j] EXCEPT !.active = FALSE ] ]

\* The lists BruteForceSearch::FindGhostParticlesToExport can fill for rank
\* r: for every other rank some of r's particles in index order, none for r
ExportLists(r, Nsph) ==
    { e \in [ Ranks -> { SetToAscSeq(S) : S \in SUBSET (0 .. (Nsph - 1)) } ] :
        e[r] = <<>> }

\* Number of ranks and of real particles of each rank before the first
\* exchange: up to MaxGhostNmpi ranks of one particle, fewer ranks of more
ExchangeConfigs ==
    { cfg \in (2 .. MaxGhostNmpi) \X (1 .. MaxOwn) :
        cfg[1] + cfg[2] <= MaxGhostNmpi + 1 }

ExchangeInit ==
    /\ \E cfg \in ExchangeConfigs, room \in {1, 2} :
          /\ world = [ Nmpi |-> cfg[1] ]
          /\ procs = [ r \in 0 .. (cfg[1] - 1) |->
                [ pc |-> "idle",
                  sphdata |-> [ i \in 0 .. (cfg[2] - 1) |->
                                  [ id |-> <<r, i>>, x |-> 10 * r + i,
                                    active |-> TRUE ] ],
                  Nsph |-> cfg[2], NPeriodicGhost |-> 0, Nghost |-> 0,
                  Ntot |-> cfg[2], Nsphmax |-> cfg[2] + room,
                  Nghostmax |-> room,
                  particles_to_export_per_node |-> [ n \in 0 .. (cfg[1] - 1) |-> <<>> ],
                  num_particles_export_per_node |-> [ n \in 0 .. (cfg[1] - 1) |-> 0 ],
                  displacements_send |-> [ n \in 0 .. (cfg[1] - 1) |-> 0 ],
                  num_particles_to_be_received |-> [ n \in 0 .. (cfg[1] - 1) |-> 0 ],
                  receive_displs |-> [ n \in 0 .. (cfg[1] - 1) |-> 0 ],
                  tot_particles_to_receive |-> 0,
                  particles_to_export |-> <<>>,
                  particles_receive |-> <<>>,
                  ghosts |-> <<>>,
                  ncoll |-> 0, searched |-> FALSE, updates |-> 0, moves |-> 0,
                  ret |-> 0, first |-> <<>>,
                  packed |-> [ c \in 1 .. MaxCollectives |-> <<>> ] ] ]
          /\ net = [ c \in 1 .. MaxCollectives |->
                       [ r \in 0 .. (cfg[1] - 1) |-> [ entered |-> FALSE ] ] ]

\* SendReceiveGhosts up to the MPI_Alltoallv of the counts (lines 893-936)
SendReceiveGhosts_Counts(r) ==
    /\ procs[r].pc = "idle"
    /\ ~procs[r].searched
    /\ \E e \in ExportLists(r, procs[r].Nsph) :
          LET cnt == [ n \in Ranks |-> Len(e[n]) ]
          IN  /\ procs' = [ procs EXCEPT ![r] =
                    [ @ EXCEPT !.pc = "counts",
                               !.particles_to_export_per_node = e,
                               !.num_particles_export_per_node = cnt,
                               !.displacements_send = Displacements(cnt),
                               !.ncoll = 1 ] ]
              /\ net' = [ net EXCEPT ![1][r] = [ entered |-> TRUE, counts |-> cnt ] ]
    /\ UNCHANGED <<world, restL>>

\* SendReceiveGhosts from the return of the first MPI_Alltoallv to the call
\* of the second (lines 936-969)
SendReceiveGhosts_Particles(r) ==
    /\ procs[r].pc = "counts"
    /\ AllEntered(1)
    /\ LET p == procs[r]
           recv == [ s \in Ranks |-> net[1][s].counts[r] ]
           buf == PackExports(p, world.Nmpi)
       IN  /\ procs' = [ procs EXCEPT ![r] =
                 [ @ EXCEPT !.pc = "particles",
                            !.num_particles_to_be_received = recv,
                            !.tot_particles_to_receive = Accumulate(recv),
                            !.particles_receive =
                                [ j \in 1 .. Accumulate(recv) |->
                                    [ id |-> <<-1, -1>>, x |-> 0,
                                      active |-> FALSE ] ],
                            !.particles_to_export = buf,
                            !.receive_displs = Displacements(recv),
                            !.packed[2] = p.sphdata,
                            !.ncoll = 2 ] ]
           /\ net' = [ net EXCEPT ![2][r] =
                         [ entered |-> TRUE, buf |-> buf,
                           counts |-> p.num_particles_export_per_node,
                           displs |-> p.displacements_send ] ]
    /\ UNCHANGED <<world, restL>>

\* The return of SendReceiveGhosts (lines 971-973) and the rest of
\* MPIGhosts::SearchGhostParticles (Ghosts.cpp, lines 384-405)
MPIGhosts_SearchReturn(r) ==
    /\ procs[r].pc = "particles"
    /\ AllEntered(2)
    /\ LET p == procs[r]
           ghost_array == ReceiveParticles(p, r, 2)
           Nmpighosts == p.tot_particles_to_receive
           q == [ p EXCEPT !.particles_receive = ghost_array,
                           !.ret = Nmpighosts ]
       IN  procs' = [ procs EXCEPT ![r] =
               IF q.Ntot + Nmpighosts > q.Nsphmax
               THEN [ q EXCEPT !.pc = "error" ]
               ELSE [ q EXCEPT
                        !.ghosts = StoreGhosts(ghost_array),
                        !.Nghost = @ + Nmpighosts,
                        !.Ntot = @ + Nmpighosts,
                        !.searched = TRUE,
                        !.first = [ particles_receive |-> ghost_array,
                                    ret |-> Nmpighosts,
                                    lists |-> q.particles_to_export_per_node,
                                    counts |-> q.num_particles_export_per_node,
                                    displs |-> q.displacements_send ],
                        !.pc = IF q.Nghost + Nmpighosts > q.Nghostmax \/
                                  q.Ntot + Nmpighosts > q.Nsphmax
                               THEN "error" ELSE "idle" ] ]
    /\ UNCHANGED <<net, world, restL>>

\* Between two exchanges the rank integrates its real particles
ExchangeMove(r) ==
    /\ procs[r].pc = "idle"
    /\ procs[r].searched
    /\ procs[r].moves < MaxUpdates
    /\ procs[r].moves <= procs[r].updates
    /\ procs' = [ procs EXCEPT ![r] =
          [ @ EXCEPT !.sphdata = [ i \in DOMAIN @ |->
                                     [ @[i] EXCEPT !.x = @ + 100 * (i + 1) ] ],
                     !.moves = @ + 1 ] ]
    /\ UNCHANGED <<net, world, restL>>

\* UpdateGhostParticles up to its MPI_Alltoallv (lines 990-1007)
UpdateGhostParticles_Send(r) ==
    /\ procs[r].pc = "idle"
    /\ procs[r].searched
    /\ procs[r].updates < MaxUpdates
    /\ LET p == procs[r]
           buf == UpdateBuffer(p)
       IN  /\ procs' = [ procs EXCEPT ![r] =
                 [ @ EXCEPT !.pc = "update",
                            !.particles_to_export = buf,
                            !.packed[p.ncoll + 1] = p.sphdata,
                            !.ncoll = @ + 1 ] ]
           /\ net' = [ net EXCEPT ![p.ncoll + 1][r] =
                         [ entered |-> TRUE, buf |-> buf,
                           counts |-> p.num_particles_export_per_node,
                           displs |-> p.displacements_send ] ]
    /\ UNCHANGED <<world, restL>>

\* The return of UpdateGhostParticles (lines 1009-1011) and the rest of
\* MPIGhosts::CopySphDataToGhosts (Ghosts.cpp, lines 410-418)
MPIGhosts_CopyReturn(r) ==
    /\ procs[r].pc = "update"
    /\ AllEntered(procs[r].ncoll)
    /\ LET p == procs[r]
           ghost_array == ReceiveParticles(p, r, p.ncoll)
       IN  procs' = [ procs EXCEPT ![r] =
               [ p EXCEPT !.particles_receive = ghost_array,
                          !.ret = p.tot_particles_to_receive,
                          !.ghosts = StoreGhosts(ghost_array),
                          !.updates = @ + 1,
                          !.pc = "idle" ] ]
    /\ UNCHANGED <<net, world, restL>>

ExchangeNext ==
    \/ \E r \in Ranks : SendReceiveGhosts_Counts(r)
    \/ \E r \in Ranks : SendReceiveGhosts_Particles(r)
    \/ \E r \in Ranks : MPIGhosts_SearchReturn(r)
    \/ \E r \in Ranks : ExchangeMove(r)
    \/ \E r \in Ranks : UpdateGhostParticles_Send(r)
    \/ \E r \in Ranks : MPIGhosts_CopyReturn(r)

(***************************************************************************)
(* Claims about the ghost exchange (specification SpecExchange)            *)
(***************************************************************************)
\* Rank d is back from a call of UpdateGhostParticles
Updated(d) == procs[d].pc = "idle" /\ procs[d].updates >= 1

\* The particle of rank s behind slot j of rank d's receive buffer, as it
\* was when s filled the send buffer of d's last collective
SentInto(d, j) ==
    LET p == procs[d]
        s == SourceOf(j, p.receive_displs, p.num_particles_to_be_received)
        k == j - p.receive_displs[s]
    IN  procs[s].packed[p.ncoll][procs[s].particles_to_export_per_node[d][k]]

\* C30: UpdateGhostParticles sends to each peer the particles that the
\* preceding SendReceiveGhosts selected, in the same order and with the same
\* per-peer counts and displacements, without recomputing the export sets,
\* and returns the same ghost count; after it ghost slot j of the receiver
\* holds the current state of the real particle that SendReceiveGhosts
\* delivered into slot j, and each receive count is the peer's send count.
C30_UpdateResendsSelection ==
    \A d \in Ranks :
        Updated(d) =>
            LET p == procs[d]
                sent == net[p.ncoll][d]
            IN  /\ p.particles_to_export_per_node = p.first.lists
                /\ p.num_particles_export_per_node = p.first.counts
                /\ p.displacements_send = p.first.displs
                /\ sent.counts = net[2][d].counts
                /\ sent.displs = net[2][d].displs
                /\ [ k \in DOMAIN sent.buf |-> sent.buf[k].id ] =
                       [ k \in DOMAIN net[2][d].buf |-> net[2][d].buf[k].id ]
                /\ p.ret = p.first.ret
                /\ Len(p.particles_receive) = p.ret
                /\ Len(p.ghosts) = p.ret
                /\ \A s \in Ranks :
                      p.num_particles_to_be_received[s] =
                          procs[s].num_particles_export_per_node[d]
                /\ \A j \in 1 .. p.ret :
                      /\ p.particles_receive[j].id =
                             p.first.particles_receive[j].id
                      /\ p.particles_receive[j] = SentInto(d, j)
                      /\ p.ghosts[j] = [ SentInto(d, j) EXCEPT !.active = FALSE ]

\* A rank of three is back from an update with ghosts of both peers, one of
\* them in another state than SendReceiveGhosts delivered it in
C30_Witness ==
    /\ world.Nmpi = 3
    /\ \E d \in Ranks :
          /\ Updated(d)
          /\ procs[d].ret = 2
          /\ \A s \in Ranks \ {d} : procs[d].num_particles_to_be_received[s] = 1
          /\ \E j \in 1 .. 2 :
                procs[d].ghosts[j].x # procs[d].first.particles_receive[j].x


(***************************************************************************)
(* ----------------------------------------------------------------------- *)
(* SPECIFICATIONS.  One per subsystem; the other subsystems stay idle.     *)
(* ----------------------------------------------------------------------- *)
(***************************************************************************)
ForceIdle ==
    /\ sph = <<>> /\ agravbuf = <<>> /\ gpotbuf = <<>> /\ fcall = NoCall
    /\ called = {} /\ visits = <<>> /\ ncalls = 0
    /\ params = [ avisc |-> "none", acond |-> "none", routine |-> "none" ]

HIdle ==
    /\ parti = <<>> /\ neib = <<>> /\ hpar = <<>>
    /\ hst = [ pc |-> "idle" ]

GhostIdle ==
    /\ gsph = [ pc |-> "idle" ] /\ simbox = <<>> /\ mpi = <<>>
    /\ gst = [ last |-> "none" ]

MpiIdle ==
    /\ procs = <<>> /\ net = <<>> /\ world = [ Nmpi |-> 0 ]

NbodyIdle ==
    nbody = [ pc |-> "idle" ]

InitForce == ForceInit /\ HIdle /\ GhostIdle /\ MpiIdle /\ NbodyIdle

SpecForce == InitForce /\ [][ForceNext]_vars

InitH == HInit /\ ForceIdle /\ GhostIdle /\ MpiIdle /\ NbodyIdle

SpecH == InitH /\ [][HNext]_vars

InitRepeat == RepeatInit /\ ForceIdle /\ GhostIdle /\ MpiIdle /\ NbodyIdle

SpecRepeat == InitRepeat /\ [][RepeatNext]_vars

InitExchange == ExchangeInit /\ ForceIdle /\ HIdle /\ GhostIdle /\ NbodyIdle

SpecExchange == InitExchange /\ [][ExchangeNext]_vars

InitGhost == GhostInit /\ ForceIdle /\ HIdle /\ MpiIdle /\ NbodyIdle

SpecGhost == InitGhost /\ [][GhostNext]_vars

InitWrap == WrapInit /\ ForceIdle /\ HIdle /\ MpiIdle /\ NbodyIdle

SpecWrap == InitWrap /\ [][WrapNext]_vars

InitWrapOmp == OmpInit /\ ForceIdle /\ HIdle /\ MpiIdle /\ NbodyIdle

SpecWrapOmp == InitWrapOmp /\ [][OmpNext]_vars

InitLeague == LeagueInit /\ ForceIdle /\ HIdle /\ GhostIdle /\ NbodyIdle

SpecLeague == InitLeague /\ [][LeagueNext]_vars

InitBalance == BalanceInit /\ ForceIdle /\ HIdle /\ GhostIdle /\ NbodyIdle

SpecBalance == InitBalance /\ [][BalanceNext]_vars

InitLevels == LevelsInit /\ ForceIdle /\ HIdle /\ GhostIdle /\ NbodyIdle

SpecLevels == InitLevels /\ [][LevelsNext]_vars

InitNbody == NbodyInit /\ ForceIdle /\ HIdle /\ GhostIdle /\ MpiIdle

SpecNbody == InitNbody /\ [][NbodyNext]_vars

\* The ranks are separate processes: as long as some rank can take a step,
\* one is taken.
SpecBalanceFair == InitBalance /\ [][BalanceNext]_vars /\ WF_vars(BalanceNext)

=============================================================================
